---------------------------- MODULE Spec2Model ----------------------------
(***************************************************************************)
(* Model of the PDF / bibliographic-record matching engine                 *)
(* (match_pdfs_title_doi/matcher.py).                                      *)
(*                                                                         *)
(* A Python str is a sequence of one-character strings: "isj.1" is         *)
(* <<"i", "s", "j", ".", "1">>.  A Python dict is a sequence of entries in *)
(* insertion order (dicts iterate in insertion order).                     *)
(***************************************************************************)
EXTENDS Integers, Sequences, FiniteSets, TLC

-----------------------------------------------------------------------------
(* Characters and basic str operations *)

LowerSeq == <<"a", "b", "c", "d", "e", "f", "g", "h", "i", "j", "k", "l", "m", "n", "o", "p", "q", "r", "s", "t", "u", "v", "w", "x", "y", "z">>

UpperSeq == <<"A", "B", "C", "D", "E", "F", "G", "H", "I", "J", "K", "L", "M", "N", "O", "P", "Q", "R", "S", "T", "U", "V", "W", "X", "Y", "Z">>

LowerChars == {LowerSeq[i] : i \in 1..Len(LowerSeq)}

UpperChars == {UpperSeq[i] : i \in 1..Len(UpperSeq)}

DigitChars == {"0", "1", "2", "3", "4", "5", "6", "7", "8", "9"}

HexChars == DigitChars \cup {"a", "b", "c", "d", "e", "f", "A", "B", "C", "D", "E", "F"}

\* str.lower() on one character
LowerChar(c) ==
    IF c \in UpperChars
    THEN LowerSeq[CHOOSE i \in 1..Len(UpperSeq) : UpperSeq[i] = c]
    ELSE c

\* str.lower()
StrLower(s) == [i \in 1..Len(s) |-> LowerChar(s[i])]

\* s.startswith(p)
StartsWith(s, p) == Len(p) <= Len(s) /\ SubSeq(s, 1, Len(p)) = p

\* p in s
IsSubstring(p, s) ==
    \E i \in 0..(Len(s) - Len(p)) : SubSeq(s, i + 1, i + Len(p)) = p

-----------------------------------------------------------------------------
(* TextNormalizer *)

\* re.sub(r'[^a-z]', '', text) / re.sub(r'[^a-z0-9]', '', text)
KeepChar(c, remove_numbers) ==
    c \in LowerChars \/ (~remove_numbers /\ c \in DigitChars)

RECURSIVE StripChars(_, _)
StripChars(s, remove_numbers) ==
    IF s = <<>> THEN <<>>
    ELSE (IF KeepChar(Head(s), remove_numbers) THEN <<Head(s)>> ELSE <<>>)
         \o StripChars(Tail(s), remove_numbers)

\* faulty variant: the character filter without text.lower()
normalizeNoLower(text, remove_numbers) ==
    IF text = <<>> THEN <<>>
    ELSE StripChars(text, remove_numbers)

\* TextNormalizer.normalize
normalize(text, remove_numbers) ==
    IF text = <<>> THEN <<>>
    ELSE StripChars(StrLower(text), remove_numbers)

\* End (exclusive) of the match of #x[0-9a-fA-F]+; starting at position i,
\* or 0 when the pattern does not match at i.  The hex run is greedy and
\* ';' is no hex digit, so the only candidate is the maximal run.
RECURSIVE HexRunEnd(_, _)
HexRunEnd(s, j) ==
    IF j <= Len(s) /\ s[j] \in HexChars THEN HexRunEnd(s, j + 1) ELSE j

EncodingMatchEnd(s, i) ==
    IF i + 1 <= Len(s) /\ s[i] = "#" /\ s[i + 1] = "x"
    THEN LET j == HexRunEnd(s, i + 2)
         IN IF j > i + 2 /\ j <= Len(s) /\ s[j] = ";" THEN j + 1 ELSE 0
    ELSE 0

\* One left-to-right pass of re.sub: non-overlapping matches are dropped
RECURSIVE SubEncoding(_, _)
SubEncoding(s, i) ==
    IF i > Len(s) THEN <<>>
    ELSE IF EncodingMatchEnd(s, i) # 0 THEN SubEncoding(s, EncodingMatchEnd(s, i))
    ELSE <<s[i]>> \o SubEncoding(s, i + 1)

\* TextNormalizer.remove_special_encoding
remove_special_encoding(filename) == SubEncoding(filename, 1)

-----------------------------------------------------------------------------
(* PDFNameAnalyzer *)

DOI_PREFIXES == << <<"i", "s", "j", ".">>, <<"j", ".", "1", "3", "6", "5", "-", "2", "5", "7", "5">>, <<"1", "0", ".">> >>

\* faulty variant: the prefix test without name.lower()
_is_doi_formatCaseSensitive(name) ==
    \E k \in 1..Len(DOI_PREFIXES) : StartsWith(name, DOI_PREFIXES[k])

\* PDFNameAnalyzer._is_doi_format: case-insensitive prefix test
_is_doi_format(name) ==
    \E k \in 1..Len(DOI_PREFIXES) : StartsWith(StrLower(name), DOI_PREFIXES[k])

\* PDFNameAnalyzer._build_full_doi: case-sensitive prefix tests
_build_full_doi(name) ==
    IF StartsWith(name, <<"i", "s", "j", ".">>) THEN <<"1", "0", ".", "1", "1", "1", "1", "/">> \o name
    ELSE IF StartsWith(name, <<"j", ".", "1", "3", "6", "5", "-", "2", "5", "7", "5">>) THEN <<"1", "0", ".", "1", "1", "1", "1", "/">> \o name
    ELSE name

\* '_' followed by four digits at position i (the text matched by _(\d{4}))
YearTokenAt(name, i) ==
    /\ i + 4 <= Len(name)
    /\ name[i] = "_"
    /\ \A k \in 1..4 : name[i + k] \in DigitChars

\* re.search(r'_(\d{4})_', name): start of the leftmost match, 0 if none
YearMiddleStart(name) ==
    LET hits == {i \in 1..Len(name) :
                    YearTokenAt(name, i) /\ i + 5 <= Len(name) /\ name[i + 5] = "_"}
    IN IF hits = {} THEN 0 ELSE CHOOSE i \in hits : \A j \in hits : i <= j

\* re.search(r'_(\d{4})$', name): '$' matches at the end of the string
YearEndStart(name) ==
    IF Len(name) >= 5 /\ YearTokenAt(name, Len(name) - 4) THEN Len(name) - 4 ELSE 0

\* faulty variant: the whole name is the title part
_extract_title_partWhole(name) == name

\* faulty variant: only a year at the end of the name is looked for
_extract_title_partEndOnly(name) ==
    IF YearEndStart(name) # 0 THEN SubSeq(name, 1, YearEndStart(name) - 1)
    ELSE name

\* PDFNameAnalyzer._extract_title_part
_extract_title_part(name) ==
    IF YearMiddleStart(name) # 0 THEN SubSeq(name, 1, YearMiddleStart(name) - 1)
    ELSE IF YearEndStart(name) # 0 THEN SubSeq(name, 1, YearEndStart(name) - 1)
    ELSE name

\* PDFNameAnalyzer.analyze: (normalized_for_title, normalized_for_doi, is_doi_format)
analyze(pdf_name) ==
    LET cleaned_name == remove_special_encoding(pdf_name)
        is_doi == _is_doi_format(cleaned_name)
    IN IF is_doi
       THEN [norm_title |-> normalize(cleaned_name, TRUE),
             norm_doi |-> normalize(_build_full_doi(cleaned_name), FALSE),
             is_doi |-> TRUE]
       ELSE [norm_title |-> normalize(_extract_title_part(cleaned_name), TRUE),
             norm_doi |-> normalize(cleaned_name, FALSE),
             is_doi |-> FALSE]

-----------------------------------------------------------------------------
(* Python values held in a record field: a str or None *)

Str(s) == [kind |-> "str", s |-> s]

None == [kind |-> "none", s |-> <<>>]

\* truth value of a field value: None and '' are falsy
Truthy(v) == v.kind = "str" /\ v.s # <<>>

\* str(value)
ToStr(v) == IF v.kind = "none" THEN <<"N", "o", "n", "e">> ELSE v.s

\* Record.get(key, default)
RecordGet(record, key, default) ==
    IF key \in DOMAIN record.data THEN record.data[key] ELSE default

\* PDFMatcher.__init__ defaults
title_column == "Title"

doi_column == "DOI"

-----------------------------------------------------------------------------
(* dict / defaultdict(list), kept in insertion order *)

DictHas(d, k) == \E i \in 1..Len(d) : d[i].key = k

\* faulty variant: an existing key keeps its value
DictPutKeepFirst(d, k, v) ==
    IF DictHas(d, k) THEN d ELSE Append(d, [key |-> k, value |-> v])

\* d[k] = v : an existing key keeps its position, a new key goes last
DictPut(d, k, v) ==
    IF DictHas(d, k)
    THEN [i \in 1..Len(d) |-> IF d[i].key = k THEN [key |-> k, value |-> v] ELSE d[i]]
    ELSE Append(d, [key |-> k, value |-> v])

\* index[k].append(item) on a defaultdict(list)
\* faulty variant: the item is filed twice under its key
IndexAppendTwice(index, k, item) ==
    IF DictHas(index, k)
    THEN [i \in 1..Len(index) |->
             IF index[i].key = k
             THEN [key |-> k, value |-> Append(Append(index[i].value, item), item)]
             ELSE index[i]]
    ELSE Append(index, [key |-> k, value |-> <<item, item>>])


IndexAppend(index, k, item) ==
    IF DictHas(index, k)
    THEN [i \in 1..Len(index) |->
             IF index[i].key = k
             THEN [key |-> k, value |-> Append(index[i].value, item)]
             ELSE index[i]]
    ELSE Append(index, [key |-> k, value |-> <<item>>])

-----------------------------------------------------------------------------
(* PDFScanner *)

\* directory.glob('**/*.pdf' if recursive else '*.pdf'), in enumeration order
Glob(directory, recursive) ==
    SelectSeq(directory.listing, LAMBDA item : recursive \/ item.dir = "")

RECURSIVE ScanItems(_, _)
ScanItems(items, pdf_files) ==
    IF items = <<>> THEN pdf_files
    ELSE ScanItems(Tail(items),
                   IF Head(items).is_file
                   THEN DictPut(pdf_files, Head(items).stem,
                                [dir |-> Head(items).dir, stem |-> Head(items).stem])
                   ELSE pdf_files)

\* PDFScanner.scan_directory
scan_directory(directory, recursive) ==
    IF ~directory.exists THEN <<>>
    ELSE ScanItems(Glob(directory, recursive), <<>>)

-----------------------------------------------------------------------------
(* PDFMatcher._match_single_record *)

MIN_DOI_LEN == 5

MIN_TITLE_LEN == 10

\* the elements of a list
PathSet(pdfs) == {pdfs[k] : k \in 1..Len(pdfs)}

\* [path for _, path in pdf_list]
Paths(pdf_list) == [i \in 1..Len(pdf_list) |-> pdf_list[i].path]

\* faulty variant: containment accepted in either direction
DoiEntryMatchesEitherWay(norm_doi, pdf_norm_doi) ==
    /\ pdf_norm_doi # <<>>
    /\ Len(pdf_norm_doi) >= MIN_DOI_LEN
    /\ (IsSubstring(pdf_norm_doi, norm_doi) \/ IsSubstring(norm_doi, pdf_norm_doi))

\* condition of the DOI loop for one index entry
DoiEntryMatches(norm_doi, pdf_norm_doi) ==
    /\ pdf_norm_doi # <<>>
    /\ Len(pdf_norm_doi) >= MIN_DOI_LEN
    /\ (norm_doi = pdf_norm_doi \/ IsSubstring(pdf_norm_doi, norm_doi))

\* faulty variant: the key may occur anywhere in the title
TitleEntryContains(norm_title, pdf_norm_title) ==
    pdf_norm_title # <<>> /\ IsSubstring(pdf_norm_title, norm_title)

\* faulty variant: the prefix test the other way round
TitleEntryReversed(norm_title, pdf_norm_title) ==
    pdf_norm_title # <<>> /\ StartsWith(pdf_norm_title, norm_title)

\* condition of the title loop for one index entry
TitleEntryMatches(norm_title, pdf_norm_title) ==
    pdf_norm_title # <<>> /\ StartsWith(norm_title, pdf_norm_title)

RECURSIVE DoiLoop(_, _)
DoiLoop(norm_doi, index) ==
    IF index = <<>> THEN <<>>
    ELSE (IF DoiEntryMatches(norm_doi, Head(index).key)
          THEN Paths(Head(index).value) ELSE <<>>)
         \o DoiLoop(norm_doi, Tail(index))

\* faulty variant: the title loop stops at the first entry that matches
RECURSIVE TitleLoopFirstOnly(_, _)
TitleLoopFirstOnly(norm_title, index) ==
    IF index = <<>> THEN <<>>
    ELSE IF TitleEntryMatches(norm_title, Head(index).key)
         THEN Paths(Head(index).value)
         ELSE TitleLoopFirstOnly(norm_title, Tail(index))

RECURSIVE TitleLoop(_, _)
TitleLoop(norm_title, index) ==
    IF index = <<>> THEN <<>>
    ELSE (IF TitleEntryMatches(norm_title, Head(index).key)
          THEN Paths(Head(index).value) ELSE <<>>)
         \o TitleLoop(norm_title, Tail(index))

\* faulty variant: the DOI block without its two length floors
RECURSIVE DoiLoopNoFloor(_, _)
DoiLoopNoFloor(norm_doi, index) ==
    IF index = <<>> THEN <<>>
    ELSE (IF Head(index).key # <<>> /\ IsSubstring(Head(index).key, norm_doi)
          THEN Paths(Head(index).value) ELSE <<>>)
         \o DoiLoopNoFloor(norm_doi, Tail(index))

DoiPhaseNoFloor(record, index) ==
    LET doi_value == RecordGet(record, doi_column, Str(<<>>))
    IN IF Truthy(doi_value)
       THEN DoiLoopNoFloor(normalize(ToStr(doi_value), FALSE), index)
       ELSE <<>>

\* phase 1: matching_pdfs after the DOI block
DoiPhase(record, index) ==
    LET doi_value == RecordGet(record, doi_column, Str(<<>>))
        norm_doi == normalize(ToStr(doi_value), FALSE)
    IN IF Truthy(doi_value) /\ Len(norm_doi) >= MIN_DOI_LEN
       THEN DoiLoop(norm_doi, index)
       ELSE <<>>

\* faulty variant: the title block runs whatever the DOI block found
TitlePhaseAlways(record, doi_matches) ==
    Truthy(RecordGet(record, title_column, Str(<<>>)))

\* guard of phase 2: "if not matching_pdfs and title_value"
TitlePhaseRuns(record, doi_matches) ==
    doi_matches = <<>> /\ Truthy(RecordGet(record, title_column, Str(<<>>)))

\* phase 2: what the title block extends matching_pdfs with
TitlePhase(record, index) ==
    TitleLoop(normalize(ToStr(RecordGet(record, title_column, Str(<<>>))), TRUE), index)

\* matching_pdfs before deduplication
Collected(record, t_index, d_index) ==
    LET doi_matches == DoiPhase(record, d_index)
    IN IF TitlePhaseRuns(record, doi_matches)
       THEN doi_matches \o TitlePhase(record, t_index)
       ELSE doi_matches

\* final value of the local match_method
MatchMethod(record, t_index, d_index) ==
    LET doi_matches == DoiPhase(record, d_index)
    IN IF TitlePhaseRuns(record, doi_matches) /\ TitlePhase(record, t_index) # <<>>
       THEN "Title"
       ELSE IF doi_matches # <<>> THEN "DOI" ELSE ""

\* faulty variant: last occurrences, in order
RECURSIVE DedupKeepLast(_)
DedupKeepLast(xs) ==
    IF xs = <<>> THEN <<>>
    ELSE LET rest == DedupKeepLast(Tail(xs))
         IN IF \E i \in 1..Len(rest) : rest[i] = Head(xs) THEN rest ELSE <<Head(xs)>> \o rest

\* list(dict.fromkeys(xs)): first occurrences, in order
RECURSIVE Dedup(_)
Dedup(xs) ==
    IF xs = <<>> THEN <<>>
    ELSE LET init == Dedup(SubSeq(xs, 1, Len(xs) - 1))
             last == xs[Len(xs)]
         IN IF \E i \in 1..Len(init) : init[i] = last THEN init ELSE Append(init, last)

\* faulty variant: any non-empty list counts as a unique match
StatusForNoMulti(n) ==
    IF n = 0 THEN "UNMATCHED" ELSE "MATCHED"

\* the status chosen from len(matching_pdfs)
StatusFor(n) ==
    IF n = 0 THEN "UNMATCHED" ELSE IF n = 1 THEN "MATCHED" ELSE "MULTI_MATCHED"

\* the reason text: "no matching PDF file" / "" / "matched <n> PDF files"
ReasonFor(n) ==
    IF n = 0 THEN [text |-> "no matching pdf", count |-> 0]
    ELSE IF n = 1 THEN [text |-> "", count |-> 0]
    ELSE [text |-> "matched n pdfs", count |-> n]

\* PDFMatcher._match_single_record
_match_single_record(idx, record, t_index, d_index) ==
    LET matching_pdfs == Dedup(Collected(record, t_index, d_index))
    IN [record_index |-> idx,
        record |-> record,
        status |-> StatusFor(Len(matching_pdfs)),
        matched_pdfs |-> matching_pdfs,
        reason |-> ReasonFor(Len(matching_pdfs))]

\* faulty variant: the zero-files branch gives the reason of a failed search
NoPdfResultSearchReason(idx, record) ==
    [record_index |-> idx,
     record |-> record,
     status |-> "UNMATCHED",
     matched_pdfs |-> <<>>,
     reason |-> [text |-> "no matching pdf", count |-> 0]]

\* the MatchResult of the zero-files branch of match_all
NoPdfResult(idx, record) ==
    [record_index |-> idx,
     record |-> record,
     status |-> "UNMATCHED",
     matched_pdfs |-> <<>>,
     reason |-> [text |-> "no pdf in directory", count |-> 0]]

-----------------------------------------------------------------------------
(* MatchResult *)

\* the value None where a Path is expected
NonePath == [dir |-> "", stem |-> <<>>]

\* MatchResult.is_matched
is_matched(mr) == mr.status = "MATCHED"

\* MatchResult.is_multi_matched
is_multi_matched(mr) == mr.status = "MULTI_MATCHED"

\* faulty variant: the first location of any result that has one
matched_pdfAnyStatus(mr) ==
    IF mr.matched_pdfs # <<>> THEN mr.matched_pdfs[1] ELSE NonePath

\* MatchResult.matched_pdf
matched_pdf(mr) ==
    IF mr.status = "MATCHED" /\ mr.matched_pdfs # <<>>
    THEN mr.matched_pdfs[1]
    ELSE NonePath

-----------------------------------------------------------------------------
(* BatchMatchResult *)

CountStatus(results, status) ==
    Cardinality({i \in 1..Len(results) : results[i].status = status})

matched_count(r) == CountStatus(r.results, "MATCHED")

unmatched_count(r) == CountStatus(r.results, "UNMATCHED")

multi_matched_count(r) == CountStatus(r.results, "MULTI_MATCHED")

\* faulty variant: every record with a file counts as matched
match_rateWithMulti(r) ==
    IF r.total_records = 0 THEN [num |-> 0, den |-> 1]
    ELSE [num |-> matched_count(r) + multi_matched_count(r), den |-> r.total_records]

\* BatchMatchResult.match_rate: the float 0.0, or the quotient of the true
\* division, as a fraction
match_rate(r) ==
    IF r.total_records = 0 THEN [num |-> 0, den |-> 1]
    ELSE [num |-> matched_count(r), den |-> r.total_records]

-----------------------------------------------------------------------------
(* Inputs: the scanned directory and the record list *)

MaxFiles == 2

MaxRecords == 2

Name_isj == <<"i", "s", "j", ".", "1", "2", "3", "4", "5">>

Name_doiFull == <<"1", "0", ".", "1", "1", "1", "1", "_", "i", "s", "j", ".", "1", "2", "3", "4", "5">>

Name_doiTiny == <<"1", "0", ".", "1">>

Name_doiWithTitle == <<"1", "0", ".", "1", "_", "d", "e", "e", "p", "l", "e", "a", "r", "n", "i", "n", "g">>

Name_titleYear == <<"D", "e", "e", "p", "-", "l", "e", "a", "r", "n", "i", "n", "g", "_", "2", "0", "2", "4", "_", "M", "I", "S", "Q">>

Name_titleShort == <<"D", "e", "e", "p", "-", "l", "e", "a", "r">>

File(dir, stem) == [dir |-> dir, stem |-> stem, is_file |-> TRUE]

\* What the directory may hold.  Name_isj and Name_doiFull share one DOI key;
\* Name_doiTiny has a DOI key below the floor; Name_doiWithTitle is DOI-format
\* with a long title key; Name_titleShort has a title key below the floor.
DirPool ==
    {File("", Name_isj), File("", Name_doiFull), File("", Name_doiTiny),
     File("", Name_doiWithTitle), File("", Name_titleYear), File("", Name_titleShort)}

Rec(title, doi) == [data |-> [Title |-> title, DOI |-> doi]]

RecordPool ==
    {Rec(Str(<<"D", "e", "e", "p", " ", "l", "e", "a", "r", "n", "i", "n", "g", " ", "m", "o", "d", "e", "l", "s">>), Str(<<"1", "0", ".", "1", "1", "1", "1", "/", "i", "s", "j", ".", "1", "2", "3", "4", "5">>)),
     Rec(Str(<<"O", "t", "h", "e", "r">>), Str(<<"d", "o", "i", ".", "o", "r", "g", "/", "1", "0", ".", "1", "1", "1", "1", "/", "I", "S", "J", ".", "1", "2", "3", "4", "5">>)),
     Rec(Str(<<"D", "e", "e", "p", " ", "l", "e", "a", "r", "n", "i", "n", "g", " ", "m", "o", "d", "e", "l", "s">>), Str(<<"1", "0", ".", "1">>)),
     [data |-> [Title |-> Str(<<"D", "e", "e", "p", " ", "l", "e", "a", "r", "n", "i", "n", "g">>)]],
     Rec(Str(<<"O", "n", " ", "d", "e", "e", "p", " ", "l", "e", "a", "r", "n", "i", "n", "g">>), Str(<<"D", "e", "e", "p", "-", "l", "e", "a", "r">>)),
     Rec(Str(<<"D", "e", "e", "p", " ", "l", "e", "a", "r", "n">>), None)}

\* sequences over S of length at most n, without repetition
RECURSIVE Arrangements(_, _)
Arrangements(S, n) ==
    IF n = 0 THEN {<<>>}
    ELSE LET shorter == Arrangements(S, n - 1)
         IN shorter \cup
            {Append(q, x) : <<q, x>> \in
                {p \in shorter \X S : \A i \in 1..Len(p[1]) : p[1][i] # p[2]}}

\* sequences over S of length at most n
RECURSIVE Lists(_, _)
Lists(S, n) ==
    IF n = 0 THEN {<<>>}
    ELSE LET shorter == Lists(S, n - 1)
         IN shorter \cup {Append(q, x) : <<q, x>> \in shorter \X S}

Directories ==
    {[exists |-> FALSE, listing |-> <<>>]} \cup
    {[exists |-> TRUE, listing |-> l] : l \in Arrangements(DirPool, MaxFiles)}

RecordLists == Lists(RecordPool, MaxRecords)

\* The scanner's cases: files in a sub-directory, a base name shared by two
\* files, a directory whose name ends in .pdf
ScanPool ==
    {File("", Name_isj), File("sub", Name_isj), File("sub", Name_titleYear),
     [dir |-> "", stem |-> Name_titleYear, is_file |-> FALSE]}

ScanDirectories ==
    {[exists |-> FALSE, listing |-> <<>>]} \cup
    {[exists |-> TRUE, listing |-> l] : l \in Arrangements(ScanPool, MaxFiles)}

Rec_isjDoi == Rec(Str(<<"D", "e", "e", "p", " ", "l", "e", "a", "r", "n", "i", "n", "g", " ", "m", "o", "d", "e", "l", "s">>), Str(<<"1", "0", ".", "1", "1", "1", "1", "/", "i", "s", "j", ".", "1", "2", "3", "4", "5">>))

Rec_titleOnly == [data |-> [Title |-> Str(<<"D", "e", "e", "p", " ", "l", "e", "a", "r", "n", "i", "n", "g">>)]]

ScanRecordPool == {Rec_isjDoi, Rec_titleOnly}

\* Defective records: both fields None, neither column present, both fields
\* empty, both keys too short, only the DOI usable, only the title usable
Rec_bothNone == Rec(None, None)

Rec_noColumns == [data |-> [Author |-> Str(<<"S", "m", "i", "t", "h">>)]]

Rec_bothEmpty == Rec(Str(<<>>), Str(<<>>))

Rec_shortKeys == Rec(Str(<<"2", "0", "2", "4">>), Str(<<"n", "/", "a">>))

Rec_doiOnly == Rec(None, Str(<<"1", "0", ".", "1", "1", "1", "1", "/", "i", "s", "j", ".", "1", "2", "3", "4", "5">>))

DefectRecordPool ==
    {Rec_bothNone, Rec_noColumns, Rec_bothEmpty, Rec_shortKeys,
     Rec_doiOnly, Rec_titleOnly, Rec_isjDoi}

DefectDirPool == {File("", Name_isj), File("", Name_titleYear)}

DefectDirectories ==
    {[exists |-> TRUE, listing |-> l] : l \in Arrangements(DefectDirPool, MaxFiles)}

\* every record and every base name the specifications draw on
AllRecords == RecordPool \cup ScanRecordPool \cup DefectRecordPool

AllNames == {f.stem : f \in DirPool \cup ScanPool \cup DefectDirPool}

-----------------------------------------------------------------------------
(* PDFMatcher.match_all as a state machine *)

VARIABLES
    directory,       \* the file system under pdfs_dir
    records,         \* data_result.records
    pc,              \* position in match_all
    pdf_files,       \* the dict returned by scan_directory
    file_pos,        \* position of the indexing loop in pdf_files.items()
    title_index,
    doi_index,
    result,          \* the BatchMatchResult under construction
    match_method,    \* match_method of each evaluated record, as logged
    arg,             \* the argument of a direct call of a TextNormalizer /
                     \* PDFNameAnalyzer function
    ret,             \* what that call returned
    data_source,     \* the CSVDataSource handed to _run_matching
    app,             \* MatchingApplication._run_matching: its position, the
                     \* calls it has made, how it ended
    copier           \* PDFCopier.copy_matched_pdfs: its arguments, its loop
                     \* position, its stats and the output directory

vars == <<directory, records, pc, pdf_files, file_pos,
          title_index, doi_index, result, match_method, arg, ret,
          data_source, app, copier>>

app_vars == <<data_source, app, copier>>

\* no application is running and no copy is under way
IdleApp ==
    /\ data_source = [csv_file |-> "unset", csv_dir |-> "unset",
                      _connected |-> FALSE, _csv_files |-> <<>>]
    /\ app = [pc |-> "idle", copy_pdfs |-> FALSE, trace |-> <<>>,
              raised |-> FALSE, outcome |-> ""]
    /\ copier = [pc |-> "idle", uuid_field |-> "", overwrite |-> FALSE, pos |-> 1,
                 dest |-> <<>>, missing |-> {}, instructions |-> <<>>,
                 stats |-> [total |-> 0, copied |-> 0, skipped |-> 0, failed |-> 0]]

Init ==
    /\ directory \in Directories
    /\ records \in RecordLists
    /\ pc = "start"
    /\ pdf_files = <<>>
    /\ file_pos = 1
    /\ title_index = <<>>
    /\ doi_index = <<>>
    /\ result = [total_records |-> 0, total_pdfs |-> 0, results |-> <<>>]
    /\ match_method = <<>>
    /\ arg = <<>>
    /\ ret = <<>>
    /\ IdleApp

\* faulty variant: a missing directory is an error
ScanDirectoryStrict ==
    /\ pc = "start"
    /\ IF ~directory.exists
       THEN /\ pc' = "failed"
            /\ UNCHANGED <<pdf_files, result>>
       ELSE /\ \E recursive_scan \in BOOLEAN :
                 pdf_files' = scan_directory(directory, recursive_scan)
            /\ result' = [total_records |-> Len(records),
                          total_pdfs |-> Len(pdf_files'),
                          results |-> <<>>]
            /\ pc' = IF pdf_files' = <<>> THEN "no_files" ELSE "indexing"
    /\ UNCHANGED <<app_vars, arg, ret, directory, records, file_pos, title_index, doi_index, match_method>>

\* match_all up to the construction of the BatchMatchResult
ScanDirectory ==
    /\ pc = "start"
    /\ \E recursive_scan \in BOOLEAN :
        pdf_files' = scan_directory(directory, recursive_scan)
    /\ result' = [total_records |-> Len(records),
                  total_pdfs |-> Len(pdf_files'),
                  results |-> <<>>]
    /\ pc' = IF pdf_files' = <<>> THEN "no_files" ELSE "indexing"
    /\ UNCHANGED <<app_vars, arg, ret, directory, records, file_pos, title_index, doi_index, match_method>>

\* faulty variant: the zero-files branch returns without marking the records
NoPdfFilesNoResults ==
    /\ pc = "no_files"
    /\ pc' = "done"
    /\ UNCHANGED <<app_vars, arg, ret, directory, records, pdf_files, file_pos, title_index, doi_index,
                   result, match_method>>

\* the "if not pdf_files" branch: every record UNMATCHED, then return
NoPdfFiles ==
    /\ pc = "no_files"
    /\ result' = [result EXCEPT !.results =
                     [i \in 1..Len(records) |-> NoPdfResult(i - 1, records[i])]]
    /\ match_method' = [i \in 1..Len(records) |-> ""]
    /\ pc' = "done"
    /\ UNCHANGED <<app_vars, arg, ret, directory, records, pdf_files, file_pos,
                   title_index, doi_index>>

\* faulty variant: no minimum length for a title key
IndexTitleNoMinLen(index, pdf_name, pdf_path) ==
    LET a == analyze(pdf_name)
    IN IF a.norm_title # <<>> /\ ~a.is_doi
       THEN IndexAppend(index, a.norm_title, [name |-> pdf_name, path |-> pdf_path])
       ELSE index

\* faulty variant: DOI-format names are filed in the title index too
IndexTitleDoiToo(index, pdf_name, pdf_path) ==
    LET a == analyze(pdf_name)
    IN IF a.norm_title # <<>> /\ Len(a.norm_title) >= MIN_TITLE_LEN
       THEN IndexAppend(index, a.norm_title, [name |-> pdf_name, path |-> pdf_path])
       ELSE index

\* title_index after one iteration of the indexing loop
IndexTitle(index, pdf_name, pdf_path) ==
    LET a == analyze(pdf_name)
    IN IF a.norm_title # <<>> /\ ~a.is_doi /\ Len(a.norm_title) >= MIN_TITLE_LEN
       THEN IndexAppend(index, a.norm_title, [name |-> pdf_name, path |-> pdf_path])
       ELSE index

\* doi_index after one iteration of the indexing loop
IndexDoi(index, pdf_name, pdf_path) ==
    LET a == analyze(pdf_name)
    IN IF a.norm_doi # <<>>
       THEN IndexAppend(index, a.norm_doi, [name |-> pdf_name, path |-> pdf_path])
       ELSE index

\* one iteration of "for pdf_name, pdf_path in pdf_files.items()"
IndexPdf ==
    /\ pc = "indexing"
    /\ file_pos <= Len(pdf_files)
    /\ title_index' = IndexTitle(title_index, pdf_files[file_pos].key,
                                 pdf_files[file_pos].value)
    /\ doi_index' = IndexDoi(doi_index, pdf_files[file_pos].key,
                             pdf_files[file_pos].value)
    /\ file_pos' = file_pos + 1
    /\ pc' = IF file_pos = Len(pdf_files) THEN "matching" ELSE "indexing"
    /\ UNCHANGED <<app_vars, arg, ret, directory, records, pdf_files, result, match_method>>

\* faulty variant: match_method kept from the previous record, so the title
\* block is skipped after a record matched through its DOI
MatchRecordStaleMethod ==
    /\ pc = "matching"
    /\ Len(result.results) < Len(records)
    /\ LET idx == Len(result.results)
           record == records[idx + 1]
           stale == idx >= 1 /\ match_method[idx] = "DOI"
           found == IF stale THEN Dedup(DoiPhase(record, doi_index))
                    ELSE Dedup(Collected(record, title_index, doi_index))
       IN /\ result' = [result EXCEPT !.results =
                           Append(@, [record_index |-> idx,
                                      record |-> record,
                                      status |-> StatusFor(Len(found)),
                                      matched_pdfs |-> found,
                                      reason |-> ReasonFor(Len(found))])]
          /\ match_method' = Append(match_method,
                                    IF stale THEN "DOI"
                                    ELSE MatchMethod(record, title_index, doi_index))
    /\ UNCHANGED <<app_vars, arg, ret, directory, records, pc, pdf_files, file_pos,
                   title_index, doi_index>>

\* faulty variant: results collected newest first
MatchRecordPrepend ==
    /\ pc = "matching"
    /\ Len(result.results) < Len(records)
    /\ LET idx == Len(result.results)
           record == records[idx + 1]
       IN /\ result' = [result EXCEPT !.results =
                           <<_match_single_record(idx, record,
                                                  title_index, doi_index)>> \o @]
          /\ match_method' = <<MatchMethod(record, title_index, doi_index)>>
                                \o match_method
    /\ UNCHANGED <<app_vars, arg, ret, directory, records, pc, pdf_files, file_pos,
                   title_index, doi_index>>

\* faulty variant: a matched DOI entry is used up by the record that matched it
MatchRecordConsuming ==
    /\ pc = "matching"
    /\ Len(result.results) < Len(records)
    /\ LET idx == Len(result.results)
           record == records[idx + 1]
           used == PathSet(Collected(record, title_index, doi_index))
       IN /\ result' = [result EXCEPT !.results =
                           Append(@, _match_single_record(idx, record,
                                                          title_index, doi_index))]
          /\ match_method' = Append(match_method,
                                    MatchMethod(record, title_index, doi_index))
          /\ doi_index' = SelectSeq(doi_index,
                 LAMBDA e : PathSet(Paths(e.value)) \cap used = {})
    /\ UNCHANGED <<app_vars, arg, ret, directory, records, pc, pdf_files, file_pos, title_index>>

\* one iteration of "for idx, record in enumerate(data_result.records)"
MatchRecord ==
    /\ pc = "matching"
    /\ Len(result.results) < Len(records)
    /\ LET idx == Len(result.results)
           record == records[idx + 1]
       IN /\ result' = [result EXCEPT !.results =
                           Append(@, _match_single_record(idx, record,
                                                          title_index, doi_index))]
          /\ match_method' = Append(match_method,
                                    MatchMethod(record, title_index, doi_index))
    /\ UNCHANGED <<app_vars, arg, ret, directory, records, pc, pdf_files, file_pos,
                   title_index, doi_index>>

\* _log_statistics(result); return result
LogStatistics ==
    /\ pc = "matching"
    /\ Len(result.results) = Len(records)
    /\ pc' = "done"
    /\ UNCHANGED <<app_vars, arg, ret, directory, records, pdf_files, file_pos,
                   title_index, doi_index, result, match_method>>

Next ==
    \/ ScanDirectory
    \/ NoPdfFiles
    \/ IndexPdf
    \/ MatchRecord
    \/ LogStatistics

Spec == Init /\ [][Next]_vars

-----------------------------------------------------------------------------
(* Vocabulary of the properties *)

Results == result.results

Evaluated == 1..Len(Results)

ScannedFiles == {pdf_files[k] : k \in 1..Len(pdf_files)}

\* the items (name, path) held by an index, with the key they are filed under
IndexItems(index) ==
    {[key |-> index[k].key, path |-> index[k].value[n].path] :
        <<k, n>> \in {p \in (1..Len(index)) \X (1..Len(pdf_files)) :
                        p[2] <= Len(index[p[1]].value)}}

\* a record's DOI field normalized with digits kept ('' for an absent,
\* empty or None field) and its title field normalized to letters only
FieldText(record, column, remove_numbers) ==
    LET v == RecordGet(record, column, None)
    IN IF Truthy(v) THEN normalize(v.s, remove_numbers) ELSE <<>>

\* the texts of the records and the keys of the names the inputs draw on,
\* computed once
RecordTexts ==
    [r \in AllRecords |-> [doi |-> FieldText(r, "DOI", FALSE),
                           title |-> FieldText(r, "Title", TRUE)]]

NameKeys == [n \in AllNames |-> analyze(n)]

RecDoiText(record) == RecordTexts[record].doi

RecTitleText(record) == RecordTexts[record].title

FileDoiKey(f) == NameKeys[f.key].norm_doi

FileTitleKey(f) == NameKeys[f.key].norm_title

FileIsDoiFormat(f) == NameKeys[f.key].is_doi

ProperSubstring(p, s) == p # s /\ IsSubstring(p, s)

ProperPrefix(p, s) == p # s /\ StartsWith(s, p)

\* the DOI rule, stated file by file
DoiCollects(record, f) ==
    /\ Len(RecDoiText(record)) >= 5
    /\ Len(FileDoiKey(f)) >= 5
    /\ (FileDoiKey(f) = RecDoiText(record)
        \/ IsSubstring(FileDoiKey(f), RecDoiText(record)))

DoiFiles(record) == {f.value : f \in {g \in ScannedFiles : DoiCollects(record, g)}}

\* the title rule, stated file by file
TitleCollects(record, f) ==
    /\ ~FileIsDoiFormat(f)
    /\ Len(FileTitleKey(f)) >= 10
    /\ StartsWith(RecTitleText(record), FileTitleKey(f))

TitleFiles(record) == {f.value : f \in {g \in ScannedFiles : TitleCollects(record, g)}}

-----------------------------------------------------------------------------
\* C1: the status of every MatchResult is decided by the number of matched
\* locations: UNMATCHED iff none, MATCHED iff exactly one, MULTI_MATCHED iff
\* two or more.
StatusByCount ==
    \A i \in Evaluated :
        /\ Results[i].status = "UNMATCHED" <=> Len(Results[i].matched_pdfs) = 0
        /\ Results[i].status = "MATCHED" <=> Len(Results[i].matched_pdfs) = 1
        /\ Results[i].status = "MULTI_MATCHED" <=> Len(Results[i].matched_pdfs) >= 2

StatusByCountWitness ==
    /\ pc = "done"
    /\ \E i \in Evaluated : Len(Results[i].matched_pdfs) >= 2
    /\ \E i \in Evaluated : Len(Results[i].matched_pdfs) = 0

\* C2: when match_all returns, matched + unmatched + multi-matched equals
\* total_records, which equals the number of input records, with one
\* outcome per record.
CountsSumToTotal ==
    pc = "done" =>
        /\ matched_count(result) + unmatched_count(result)
              + multi_matched_count(result) = result.total_records
        /\ result.total_records = Len(records)
        /\ Len(Results) = Len(records)

CountsSumToTotalWitness ==
    /\ pc = "done"
    /\ Len(records) = 2
    /\ matched_count(result) = 1
    /\ unmatched_count(result) = 1

CountsSumNoFilesWitness ==
    pc = "done" /\ pdf_files = <<>> /\ Len(records) = 2

\* C3: the results list follows the input order: results[i] carries
\* record_index i (counted from 0) and the i-th input record, on the normal
\* path and on the zero-files path.
OrderPreserved ==
    /\ \A i \in Evaluated :
          /\ i <= Len(records)
          /\ Results[i].record_index = i - 1
          /\ Results[i].record = records[i]
    /\ pc = "done" => Len(Results) = Len(records)

OrderPreservedWitness ==
    /\ pc = "done"
    /\ pdf_files # <<>>
    /\ Len(Results) = 2
    /\ records[1] # records[2]

\* C4: when the DOI rule selects at least one scanned file for a record, the
\* record's matched_pdfs hold exactly those files, and no file that only the
\* title rule would select.
TitleOnlyAfterEmptyDoi ==
    \A i \in Evaluated :
        DoiFiles(Results[i].record) # {} =>
            /\ PathSet(Results[i].matched_pdfs) = DoiFiles(Results[i].record)
            /\ \A p \in TitleFiles(Results[i].record) \ DoiFiles(Results[i].record) :
                  p \notin PathSet(Results[i].matched_pdfs)
            /\ match_method[i] = "DOI"

TitleOnlyAfterEmptyDoiWitness ==
    \E i \in Evaluated :
        /\ DoiFiles(Results[i].record) # {}
        /\ TitleFiles(Results[i].record) \ DoiFiles(Results[i].record) # {}
        /\ \E item \in IndexItems(title_index) :
              StartsWith(RecTitleText(Results[i].record), item.key)

\* C5: a file is collected in the DOI phase iff the record's normalized DOI
\* and the file's DOI key both have at least 5 characters and the key equals
\* or is contained in the record's DOI; a record DOI that is a proper
\* substring of the file's key never collects that file in the DOI phase.
DoiPhaseDirectional ==
    \A i \in Evaluated : \A f \in ScannedFiles :
        LET collected == match_method[i] = "DOI"
                         /\ f.value \in PathSet(Results[i].matched_pdfs)
        IN /\ collected <=> DoiCollects(Results[i].record, f)
           /\ ProperSubstring(RecDoiText(Results[i].record), FileDoiKey(f))
                 => ~collected

DoiPhaseDirectionalWitness ==
    /\ \E i \in Evaluated : \E f \in ScannedFiles :
          /\ ProperSubstring(FileDoiKey(f), RecDoiText(Results[i].record))
          /\ f.value \in PathSet(Results[i].matched_pdfs)
    /\ \E i \in Evaluated : \E f \in ScannedFiles :
          /\ Len(RecDoiText(Results[i].record)) >= 5
          /\ ProperSubstring(RecDoiText(Results[i].record), FileDoiKey(f))
          /\ Results[i].status = "UNMATCHED"

\* C6: for a record that reaches the title phase, a file of the title index
\* is collected iff its key is a prefix of the record's title normalized to
\* letters only; a title that is a proper prefix of the key, or that holds
\* the key only at a later position, does not collect the file.
TitlePhasePrefix ==
    \A i \in Evaluated : \A item \in IndexItems(title_index) :
        match_method[i] # "DOI" =>
            LET norm_title == RecTitleText(Results[i].record)
                collected == item.path \in PathSet(Results[i].matched_pdfs)
            IN /\ collected <=> StartsWith(norm_title, item.key)
               /\ ProperPrefix(norm_title, item.key) => ~collected
               /\ (IsSubstring(item.key, norm_title)
                      /\ ~StartsWith(norm_title, item.key)) => ~collected

TitlePhasePrefixWitness ==
    /\ \E i \in Evaluated : \E item \in IndexItems(title_index) :
          /\ match_method[i] = "Title"
          /\ item.path \in PathSet(Results[i].matched_pdfs)
    /\ \E i \in Evaluated : \E item \in IndexItems(title_index) :
          /\ match_method[i] # "DOI"
          /\ Results[i].status = "UNMATCHED"
          /\ \/ (IsSubstring(item.key, RecTitleText(Results[i].record))
                   /\ ~StartsWith(RecTitleText(Results[i].record), item.key))
             \/ (RecTitleText(Results[i].record) # <<>>
                   /\ ProperPrefix(RecTitleText(Results[i].record), item.key))

\* C7: a record whose DOI field normalizes to fewer than 5 characters gets
\* no DOI-phase match whatever the DOI index holds; its matched_pdfs are
\* the files the title rule selects.
ShortDoiNeverDoiMatch ==
    \A i \in Evaluated :
        Len(RecDoiText(Results[i].record)) < 5 =>
            /\ match_method[i] # "DOI"
            /\ PathSet(Results[i].matched_pdfs) = TitleFiles(Results[i].record)

ShortDoiNeverDoiMatchWitness ==
    \E i \in Evaluated : \E f \in ScannedFiles :
        /\ RecDoiText(Results[i].record) # <<>>
        /\ Len(RecDoiText(Results[i].record)) < 5
        /\ IsSubstring(FileDoiKey(f), RecDoiText(Results[i].record))
        /\ match_method[i] = "Title"

\* C8: a scanned file whose title key is shorter than 10 characters is not
\* in the title index and is never returned by the title phase, even when
\* the key is a prefix of the record's normalized title.
ShortTitleKeyExcluded ==
    \A f \in ScannedFiles :
        Len(FileTitleKey(f)) < 10 =>
            /\ \A item \in IndexItems(title_index) : item.path # f.value
            /\ \A i \in Evaluated :
                  match_method[i] # "DOI" =>
                      f.value \notin PathSet(Results[i].matched_pdfs)

ShortTitleKeyExcludedWitness ==
    \E f \in ScannedFiles : \E i \in Evaluated :
        /\ ~FileIsDoiFormat(f)
        /\ FileTitleKey(f) # <<>>
        /\ Len(FileTitleKey(f)) < 10
        /\ match_method[i] # "DOI"
        /\ StartsWith(RecTitleText(Results[i].record), FileTitleKey(f))

\* C9: a scanned file with a DOI-format name is not in the title index, and
\* a record whose DOI field is empty, missing or normalizes to fewer than 5
\* characters is never matched to it, whatever the record's title.
DoiFormatNotTitleMatched ==
    \A f \in ScannedFiles :
        FileIsDoiFormat(f) =>
            /\ \A item \in IndexItems(title_index) : item.path # f.value
            /\ \A i \in Evaluated :
                  Len(RecDoiText(Results[i].record)) < 5 =>
                      f.value \notin PathSet(Results[i].matched_pdfs)

DoiFormatNotTitleMatchedWitness ==
    \E f \in ScannedFiles : \E i \in Evaluated :
        /\ FileIsDoiFormat(f)
        /\ Len(FileTitleKey(f)) >= 10
        /\ Len(RecDoiText(Results[i].record)) < 5
        /\ StartsWith(RecTitleText(Results[i].record), FileTitleKey(f))

\* the DOI keys the scanned names are indexed under, and the files of a key
DoiIndexKeys == {FileDoiKey(f) : f \in ScannedFiles} \ {<<>>}

DoiKeyFiles(k) == {f.value : f \in {g \in ScannedFiles : FileDoiKey(g) = k}}

\* both records of a pair get the files of key k and neither is UNMATCHED
BothReceive(i, j, k) ==
    /\ Results[i].status \in {"MATCHED", "MULTI_MATCHED"}
    /\ Results[j].status \in {"MATCHED", "MULTI_MATCHED"}
    /\ DoiKeyFiles(k) \subseteq PathSet(Results[i].matched_pdfs)
    /\ DoiKeyFiles(k) \subseteq PathSet(Results[j].matched_pdfs)
    /\ Cardinality(DoiKeyFiles(k)) >= 2 =>
          /\ Results[i].status = "MULTI_MATCHED"
          /\ Results[j].status = "MULTI_MATCHED"

SharedKeyPairs(keys) ==
    {t \in Evaluated \X Evaluated \X keys :
        /\ t[1] # t[2]
        /\ Results[t[1]].record # Results[t[2]].record
        /\ IsSubstring(t[3], RecDoiText(Results[t[1]].record))
        /\ IsSubstring(t[3], RecDoiText(Results[t[2]].record))}

\* C10 as stated: two distinct records whose normalized DOIs both contain
\* the same indexed DOI key both resolve to MATCHED or MULTI_MATCHED, each
\* with the files of that key.
SharedKeyBothMatch ==
    pc = "done" =>
        \A t \in SharedKeyPairs(DoiIndexKeys) : BothReceive(t[1], t[2], t[3])

\* C10 amended: the same, for an indexed DOI key of at least 5 characters.
SharedLongKeyBothMatch ==
    pc = "done" =>
        \A t \in SharedKeyPairs({k \in DoiIndexKeys : Len(k) >= 5}) :
            BothReceive(t[1], t[2], t[3])

SharedLongKeyBothMatchWitness ==
    /\ pc = "done"
    /\ \E t \in SharedKeyPairs({k \in DoiIndexKeys : Len(k) >= 5}) :
          Cardinality(DoiKeyFiles(t[3])) >= 2

-----------------------------------------------------------------------------
(* The scanner's cases *)

FreshMatcher ==
    /\ pc = "start"
    /\ pdf_files = <<>>
    /\ file_pos = 1
    /\ title_index = <<>>
    /\ doi_index = <<>>
    /\ result = [total_records |-> 0, total_pdfs |-> 0, results |-> <<>>]
    /\ match_method = <<>>
    /\ arg = <<>>
    /\ ret = <<>>
    /\ IdleApp

InitScan ==
    /\ directory \in ScanDirectories
    /\ records \in Lists(ScanRecordPool, MaxRecords)
    /\ FreshMatcher

SpecScan == InitScan /\ [][Next]_vars

\* C11: when the scan finds no PDF file, match_all returns at once with
\* every record UNMATCHED, an empty matched_pdfs list and the reason that
\* the directory holds no file, total_pdfs = 0, no index built and no
\* record evaluated against an index.
ZeroFilesAllUnmatched ==
    /\ pc = "no_files" =>
          pdf_files = <<>> /\ Results = <<>> /\ title_index = <<>> /\ doi_index = <<>>
    /\ (pc = "done" /\ pdf_files = <<>>) =>
          /\ result.total_pdfs = 0
          /\ title_index = <<>> /\ doi_index = <<>> /\ file_pos = 1
          /\ Len(Results) = Len(records)
          /\ \A i \in Evaluated :
                /\ Results[i].record = records[i]
                /\ Results[i].status = "UNMATCHED"
                /\ Results[i].matched_pdfs = <<>>
                /\ Results[i].reason.text = "no pdf in directory"
                /\ match_method[i] = ""

ZeroFilesAllUnmatchedWitness ==
    /\ pc = "done"
    /\ pdf_files = <<>>
    /\ directory.exists
    /\ directory.listing # <<>>
    /\ Len(Results) = 2

\* the files of the listing that a scan enumerates, in enumeration order
Enumerated(recursive) ==
    SelectSeq(directory.listing,
              LAMBDA item : item.is_file /\ (recursive \/ item.dir = ""))

\* the enumerated file that comes last among those with base name stem
LastWithStem(files, stem) ==
    files[CHOOSE i \in 1..Len(files) :
             files[i].stem = stem /\ \A j \in (i + 1)..Len(files) : files[j].stem # stem]

\* pdf_files is the mapping the claim describes for the files enumerated
ScanMapsTo(files) ==
    /\ \A a, b \in 1..Len(pdf_files) : a # b => pdf_files[a].key # pdf_files[b].key
    /\ {pdf_files[k].key : k \in 1..Len(pdf_files)} = {files[i].stem : i \in 1..Len(files)}
    /\ \A k \in 1..Len(pdf_files) :
          pdf_files[k].value =
              [dir |-> LastWithStem(files, pdf_files[k].key).dir, stem |-> pdf_files[k].key]
    /\ result.total_pdfs = Cardinality({files[i].stem : i \in 1..Len(files)})

\* C22: the scan returns one entry per distinct base name; of several
\* enumerated files with one base name the entry holds the one enumerated
\* last; total_pdfs is the number of distinct base names, not of files.
ScanOneEntryPerStem ==
    pc # "start" => \E recursive \in BOOLEAN : ScanMapsTo(Enumerated(recursive))

ScanOneEntryPerStemWitness ==
    /\ pc = "done"
    /\ directory.listing = <<File("", Name_isj), File("sub", Name_isj)>>
    /\ result.total_pdfs = 1
    /\ Len(pdf_files) = 1
    /\ pdf_files[1].value.dir = "sub"

\* C12: a missing scan directory is no failure: the scan returns an empty
\* mapping and match_all returns a result with every record UNMATCHED.
MissingDirectoryDegrades ==
    ~directory.exists =>
        /\ pc \in {"start", "no_files", "done"}
        /\ pdf_files = <<>>
        /\ pc = "done" =>
              /\ Len(Results) = Len(records)
              /\ result.total_records = Len(records)
              /\ \A i \in Evaluated :
                    Results[i].status = "UNMATCHED" /\ Results[i].record = records[i]

MissingDirectoryDegradesWitness ==
    ~directory.exists /\ pc = "done" /\ Len(Results) = 2

-----------------------------------------------------------------------------
(* Batches with defective records *)

InitDefect ==
    /\ directory \in DefectDirectories
    /\ records \in Lists(DefectRecordPool, MaxRecords)
    /\ FreshMatcher

SpecDefect == InitDefect /\ [][Next]_vars

\* a field is usable when it yields a key long enough for its phase
UsableDoi(record) == Len(RecDoiText(record)) >= 5

UsableTitle(record) == Len(RecTitleText(record)) >= 10

\* what a record gets from the scanned files, whatever else is in the batch
ExpectedFiles(record) ==
    IF DoiFiles(record) # {} THEN DoiFiles(record) ELSE TitleFiles(record)

ExpectedStatus(record) ==
    IF ExpectedFiles(record) = {} THEN "UNMATCHED"
    ELSE IF Cardinality(ExpectedFiles(record)) = 1 THEN "MATCHED"
    ELSE "MULTI_MATCHED"

\* C13 as stated: a record with a missing, empty, None or too short title
\* and/or DOI is UNMATCHED.
DefectiveUnmatched ==
    \A i \in Evaluated :
        (~UsableDoi(records[i]) \/ ~UsableTitle(records[i])) =>
            Results[i].status = "UNMATCHED"

\* C13: a defective record never aborts the batch.  A record with neither a
\* usable title nor a usable DOI is UNMATCHED; a record with one usable field
\* is decided by that field alone; every record of the batch gets a result,
\* and each result is what the record gets from the scanned files on its
\* own, whatever the other records of the batch are.
DefectiveRecordIsolated ==
    /\ pc = "done" => Len(Results) = Len(records)
    /\ \A i \in Evaluated :
          /\ Results[i].record = records[i]
          /\ (~UsableDoi(records[i]) /\ ~UsableTitle(records[i])) =>
                Results[i].status = "UNMATCHED" /\ Results[i].matched_pdfs = <<>>
          /\ (~UsableDoi(records[i]) /\ UsableTitle(records[i])) =>
                PathSet(Results[i].matched_pdfs) = TitleFiles(records[i])
          /\ (UsableDoi(records[i]) /\ ~UsableTitle(records[i])) =>
                PathSet(Results[i].matched_pdfs) = DoiFiles(records[i])
          /\ PathSet(Results[i].matched_pdfs) = ExpectedFiles(records[i])
          /\ Results[i].status = ExpectedStatus(records[i])

DefectiveRecordIsolatedWitness ==
    /\ pc = "done"
    /\ Len(Results) = 2
    /\ records[1] = Rec_shortKeys
    /\ Results[1].status = "UNMATCHED"
    /\ records[2] = Rec_titleOnly
    /\ Results[2].status = "MATCHED"

-----------------------------------------------------------------------------
(* Direct calls of TextNormalizer and PDFNameAnalyzer functions: arg is the *)
(* argument, ret the sequence of values returned so far                     *)

\* no matcher is running
IdleMatcher ==
    /\ directory = [exists |-> FALSE, listing |-> <<>>]
    /\ records = <<>>
    /\ pdf_files = <<>>
    /\ file_pos = 1
    /\ title_index = <<>>
    /\ doi_index = <<>>
    /\ result = [total_records |-> 0, total_pdfs |-> 0, results |-> <<>>]
    /\ match_method = <<>>
    /\ IdleApp

matcher_vars ==
    <<directory, records, pdf_files, file_pos, title_index, doi_index,
      result, match_method>>

\* concatenations of at most n pieces of S
RECURSIVE Concats(_, _)
Concats(S, n) ==
    IF n = 0 THEN {<<>>}
    ELSE LET shorter == Concats(S, n - 1)
         IN shorter \cup {p[1] \o p[2] : p \in shorter \X S}

MaxEncodingPieces == 6

\* the opening of a token, hex digits, the closing of a token, a letter
\* that is no hex digit
EncodingPieces == {<<"#", "x">>, <<"3">>, <<"F">>, <<";">>, <<"g">>}

InitEncoding ==
    /\ IdleMatcher
    /\ pc = "call"
    /\ arg \in Concats(EncodingPieces, MaxEncodingPieces)
    /\ ret = <<>>

\* TextNormalizer.remove_special_encoding(arg)
RemoveSpecialEncodingCall ==
    /\ pc = "call"
    /\ ret' = <<remove_special_encoding(arg)>>
    /\ pc' = "returned"
    /\ UNCHANGED <<arg, matcher_vars, app_vars>>

\* TextNormalizer.remove_special_encoding applied to what the call returned
RemoveSpecialEncodingAgain ==
    /\ pc = "returned"
    /\ Len(ret) = 1
    /\ ret' = Append(ret, remove_special_encoding(ret[1]))
    /\ UNCHANGED <<pc, arg, matcher_vars, app_vars>>

NextEncoding == RemoveSpecialEncodingCall \/ RemoveSpecialEncodingAgain

SpecEncoding == InitEncoding /\ [][NextEncoding]_vars

\* s holds a '#x' + hex digits + ';' token
HasEncodingToken(s) == \E i \in 1..Len(s) : EncodingMatchEnd(s, i) # 0

\* C14: remove_special_encoding applied twice gives what it gives applied
\* once, and a string without a '#x' + hex digits + ';' token comes back
\* unchanged.
EncodingIdempotent ==
    /\ Len(ret) = 2 => ret[2] = ret[1]
    /\ (Len(ret) >= 1 /\ ~HasEncodingToken(arg)) => ret[1] = arg

\* a call changes its argument exactly when the argument holds a token
EncodingTokenFreeUnchanged ==
    Len(ret) >= 1 => (ret[1] = arg <=> ~HasEncodingToken(arg))

-----------------------------------------------------------------------------
(* TextNormalizer.normalize on its own *)

MaxNormalizeLen == 4

\* a lower-case letter, two upper-case letters, a digit, a separator, a blank
NormalizeChars == {"a", "B", "Z", "7", "-", " "}

\* strings over S of length at most n
Strings(S, n) == UNION {[1..k -> S] : k \in 0..n}

InitNormalize ==
    /\ IdleMatcher
    /\ pc = "call"
    /\ arg \in Strings(NormalizeChars, MaxNormalizeLen)
    /\ ret = <<>>

\* TextNormalizer.normalize(arg, remove_numbers)
NormalizeCall ==
    /\ pc = "call"
    /\ \E remove_numbers \in BOOLEAN :
          ret' = <<[remove_numbers |-> remove_numbers,
                    out |-> normalize(arg, remove_numbers)]>>
    /\ pc' = "returned"
    /\ UNCHANGED <<arg, matcher_vars, app_vars>>

NextNormalize == NormalizeCall

SpecNormalize == InitNormalize /\ [][NextNormalize]_vars

\* the characters a call may return
AllowedChars(remove_numbers) ==
    IF remove_numbers THEN LowerChars ELSE LowerChars \cup DigitChars

\* the positions of the lower-cased text whose character is kept
KeptPositions(text, remove_numbers) ==
    {i \in 1..Len(text) : StrLower(text)[i] \in AllowedChars(remove_numbers)}

\* the n-th kept position
NthKept(text, remove_numbers, n) ==
    CHOOSE i \in KeptPositions(text, remove_numbers) :
        Cardinality({j \in KeptPositions(text, remove_numbers) : j <= i}) = n

\* C15: normalize(s, True) holds only a-z and normalize(s, False) only a-z
\* and 0-9; the output is the lower-cased input with every other character
\* deleted in place, the kept characters in their order; empty input gives
\* empty output.
NormalizeCharset ==
    \A c \in 1..Len(ret) :
        LET out == ret[c].out
            remove_numbers == ret[c].remove_numbers
        IN /\ \A k \in 1..Len(out) : out[k] \in AllowedChars(remove_numbers)
           /\ Len(out) = Cardinality(KeptPositions(arg, remove_numbers))
           /\ \A n \in 1..Len(out) :
                 out[n] = StrLower(arg)[NthKept(arg, remove_numbers, n)]
           /\ arg = <<>> => out = <<>>

NormalizeCharsetWitness ==
    /\ Len(ret) = 1
    /\ arg = <<"B", "7", "-", "a">>
    /\ ret[1].remove_numbers
    /\ ret[1].out = <<"b", "a">>

-----------------------------------------------------------------------------
(* PDFNameAnalyzer.analyze on its own *)

MaxAnalyzePieces == 3

\* the known prefixes, two of them also with an upper-case letter, parts that
\* an encoding token can separate, an encoding token, a digit, a letter
AnalyzePieces ==
    {<<"i", "s", "j", ".">>, <<"I", "s", "j", ".">>, <<"j", ".", "1", "3", "6", "5", "-", "2", "5", "7", "5">>, <<"J", ".", "1", "3", "6", "5", "-", "2", "5", "7", "5">>, <<"1", "0", ".">>,
     <<"i", "s">>, <<"j", ".">>, <<"#", "x", "3", "a", ";">>, <<"1">>, <<"a">>}

InitAnalyze ==
    /\ IdleMatcher
    /\ pc = "call"
    /\ arg \in Concats(AnalyzePieces, MaxAnalyzePieces)
    /\ ret = <<>>

\* PDFNameAnalyzer.analyze(arg)
AnalyzeCall ==
    /\ pc = "call"
    /\ ret' = <<analyze(arg)>>
    /\ pc' = "returned"
    /\ UNCHANGED <<arg, matcher_vars, app_vars>>

NextAnalyze == AnalyzeCall

SpecAnalyze == InitAnalyze /\ [][NextAnalyze]_vars

\* s starts with p, letter case aside
StartsWithAnyCase(s, p) ==
    Len(p) <= Len(s) /\ \A i \in 1..Len(p) : LowerChar(s[i]) = p[i]

ShortPrefixed(s) ==
    StartsWithAnyCase(s, <<"i", "s", "j", ".">>) \/ StartsWithAnyCase(s, <<"j", ".", "1", "3", "6", "5", "-", "2", "5", "7", "5">>)

KnownPrefixed(s) == ShortPrefixed(s) \/ StartsWithAnyCase(s, <<"1", "0", ".">>)

\* C16: a base name whose cleaned form starts, letter case aside, with
\* 'isj.', 'j.1365-2575' or '10.' is DOI-format and has a non-empty DOI key;
\* every other name is not DOI-format.
DoiFormatByPrefix ==
    \A c \in 1..Len(ret) :
        /\ ret[c].is_doi = KnownPrefixed(remove_special_encoding(arg))
        /\ ret[c].is_doi => ret[c].norm_doi # <<>>

DoiFormatByPrefixWitness ==
    /\ Len(ret) = 1
    /\ arg = <<"i", "s">> \o <<"#", "x", "3", "a", ";">> \o <<"J", ".", "1", "3", "6", "5", "-", "2", "5", "7", "5">>
    /\ ret[1].is_doi
    /\ ret[1].norm_doi # <<>>

\* C17: for a name detected through 'isj.' or 'j.1365-2575', letter case
\* aside, the DOI key is normalize('10.1111/' + cleaned name) with digits
\* kept; for a name starting with '10.' it is normalize(cleaned name).
ShortPrefixExpanded ==
    \A c \in 1..Len(ret) :
        LET cleaned_name == remove_special_encoding(arg)
        IN /\ ShortPrefixed(cleaned_name) =>
                ret[c].norm_doi = normalize(<<"1", "0", ".", "1", "1", "1", "1", "/">> \o cleaned_name, FALSE)
           /\ StartsWithAnyCase(cleaned_name, <<"1", "0", ".">>) =>
                ret[c].norm_doi = normalize(cleaned_name, FALSE)

-----------------------------------------------------------------------------
(* PDFNameAnalyzer.analyze on a name, the name with a year, and the name *)
(* with a year and a suffix                                               *)

MaxYearPieces == 3

\* what the name T is built from: words, the separator, four and two
\* digits, an encoding token, the beginning of DOI prefixes
YearPieces ==
    {<<"A", "-", "b">>, <<"_">>, <<"2", "0", "2", "4">>, <<"1", "2">>, <<"#", "x", "3", "a", ";">>, <<"1", "0", ".">>, <<"i", "s", "j">>}

YearTokens == {<<"2", "0", "2", "4">>, <<"0", "0", "0", "0">>}

YearSuffixes == {<<>>, <<"D", "S", "S">>, <<"2", "0", "2", "5", "_", "x">>, <<"#", "x", "3", "a", ";">>}

\* the three names analyze is called on, in the order of the calls
YearNames(a) ==
    <<a.T, a.T \o <<"_">> \o a.YYYY, a.T \o <<"_">> \o a.YYYY \o <<"_">> \o a.S>>

InitYear ==
    /\ IdleMatcher
    /\ pc = "call"
    /\ arg \in [T : Concats(YearPieces, MaxYearPieces), YYYY : YearTokens, S : YearSuffixes]
    /\ ret = <<>>

\* PDFNameAnalyzer.analyze on the next of the three names
AnalyzeYearCall ==
    /\ pc = "call"
    /\ Len(ret) < 3
    /\ ret' = Append(ret, analyze(YearNames(arg)[Len(ret) + 1]))
    /\ UNCHANGED <<pc, arg, matcher_vars, app_vars>>

NextYear == AnalyzeYearCall

SpecYear == InitYear /\ [][NextYear]_vars

\* T holds an underscore followed by exactly four digits and then by an
\* underscore or the end of T
HasYearToken(T) ==
    \E i \in 1..Len(T) :
        /\ i + 4 <= Len(T)
        /\ T[i] = "_"
        /\ \A k \in 1..4 : T[i + k] \in DigitChars
        /\ (i + 4 = Len(T) \/ T[i + 5] = "_")

\* C18: for a name T that is not DOI-format and holds no underscore-delimited
\* 4-digit token, the title keys of analyze(T + '_' + YYYY) and of
\* analyze(T + '_' + YYYY + '_' + S) equal the title key of analyze(T).
YearAndSuffixExcluded ==
    (Len(ret) = 3 /\ ~ret[1].is_doi /\ ~HasYearToken(arg.T)) =>
        /\ ret[2].norm_title = ret[1].norm_title
        /\ ret[3].norm_title = ret[1].norm_title

YearAndSuffixExcludedWitness ==
    /\ Len(ret) = 3
    /\ arg.T = <<"A", "-", "b">> \o <<"_">> \o <<"1", "2">>
    /\ arg.S = <<"D", "S", "S">>
    /\ ~ret[1].is_doi
    /\ ret[3].norm_title = <<"a", "b">>

-----------------------------------------------------------------------------
(* The batch of test_pdf_matcher *)

MaxScenarioRecords == 3

Name_cvYear == <<"A", "-", "c", "o", "m", "p", "u", "t", "e", "r", "-", "v", "i", "s", "i", "o", "n", "-", "b", "a", "s", "e", "d", "_", "2", "0", "2", "4", "_", "D", "S", "S">>

Rec_cv ==
    Rec(Str(<<"A", " ", "c", "o", "m", "p", "u", "t", "e", "r", " ", "v", "i", "s", "i", "o", "n", " ", "b", "a", "s", "e", "d", " ", "c", "o", "n", "c", "e", "p", "t", " ", "m", "o", "d", "e", "l", " ", "t", "o", " ", "r", "e", "c", "o", "m", "m", "e", "n", "d", ".", ".", ".">>),
        Str(<<"1", "0", ".", "1", "0", "1", "6", "/", "j", ".", "d", "s", "s", ".", "2", "0", "2", "4", ".", "0", "0", "1">>))

Rec_isjOther == Rec(Str(<<"S", "o", "m", "e", " ", "o", "t", "h", "e", "r", " ", "a", "r", "t", "i", "c", "l", "e">>), Str(<<"1", "0", ".", "1", "1", "1", "1", "/", "i", "s", "j", ".", "1", "2", "3", "4", "5">>))

Rec_notFound == Rec(Str(<<"U", "n", "m", "a", "t", "c", "h", "e", "d", " ", "a", "r", "t", "i", "c", "l", "e">>), Str(<<"1", "0", ".", "9", "9", "9", "9", "/", "n", "o", "t", "f", "o", "u", "n", "d">>))

ScenarioFiles == {File("", Name_cvYear), File("", Name_isj)}

ScenarioRecords == <<Rec_cv, Rec_isjOther, Rec_notFound>>

\* the directory with some or all of the test's files, in any listing order,
\* and batches drawn from the test's records
InitScenario ==
    /\ directory \in {[exists |-> TRUE, listing |-> l] :
                         l \in Arrangements(ScenarioFiles, Cardinality(ScenarioFiles))}
    /\ records \in Lists({Rec_cv, Rec_isjOther, Rec_notFound}, MaxScenarioRecords)
    /\ FreshMatcher

SpecScenario == InitScenario /\ [][Next]_vars

\* the run of the test: both files scanned, the three records in order
ScenarioDone ==
    /\ pc = "done"
    /\ records = ScenarioRecords
    /\ {f.stem : f \in {directory.listing[k] : k \in 1..Len(directory.listing)}}
         = {Name_cvYear, Name_isj}

\* C19: with the files 'A-computer-vision-based_2024_DSS' and 'isj.12345'
\* and the three records of the test, record 1 is MATCHED to the first file
\* through the title phase, record 2 is MATCHED to 'isj.12345' through the
\* DOI phase, record 3 is UNMATCHED, total_pdfs = 2 and total_records = 3.
ScenarioOutcome ==
    ScenarioDone =>
        /\ result.total_pdfs = 2
        /\ result.total_records = 3
        /\ Len(Results) = 3
        /\ Results[1].status = "MATCHED"
        /\ {p.stem : p \in PathSet(Results[1].matched_pdfs)} = {Name_cvYear}
        /\ match_method[1] = "Title"
        /\ Results[2].status = "MATCHED"
        /\ {p.stem : p \in PathSet(Results[2].matched_pdfs)} = {Name_isj}
        /\ match_method[2] = "DOI"
        /\ Results[3].status = "UNMATCHED"
        /\ Results[3].matched_pdfs = <<>>
        /\ matched_count(result) = 2
        /\ unmatched_count(result) = 1

ScenarioOutcomeWitness ==
    ScenarioDone /\ Len(Results) = 3 /\ Len(pdf_files) = 2

-----------------------------------------------------------------------------
(* A BatchMatchResult on its own: results are appended and match_rate is *)
(* read, in any order                                                     *)

MaxRateRecords == 3

\* MatchResult(record_index, Record(data={...}), status)
BareResult(idx, status) ==
    [record_index |-> idx,
     record |-> Rec_noColumns,
     status |-> status,
     matched_pdfs |-> <<>>,
     reason |-> [text |-> "", count |-> 0]]

\* BatchMatchResult(source_name, total_records, total_pdfs)
InitRate ==
    /\ directory = [exists |-> FALSE, listing |-> <<>>]
    /\ records = <<>>
    /\ pdf_files = <<>>
    /\ file_pos = 1
    /\ title_index = <<>>
    /\ doi_index = <<>>
    /\ match_method = <<>>
    /\ \E n \in 0..MaxRateRecords :
          result = [total_records |-> n, total_pdfs |-> 0, results |-> <<>>]
    /\ pc = "call"
    /\ arg = <<>>
    /\ ret = <<>>
    /\ IdleApp

\* result.results.append(MatchResult(...))
AppendResult ==
    /\ Len(result.results) < MaxRateRecords
    /\ \E status \in {"MATCHED", "UNMATCHED", "MULTI_MATCHED"} :
          result' = [result EXCEPT
                        !.results = Append(@, BareResult(Len(@), status))]
    /\ pc' = "appended"
    /\ UNCHANGED <<app_vars, arg, ret, directory, records, pdf_files, file_pos,
                   title_index, doi_index, match_method>>

\* result.match_rate
ReadMatchRate ==
    /\ ret' = <<match_rate(result)>>
    /\ pc' = "read"
    /\ UNCHANGED <<arg, matcher_vars, app_vars>>

NextRate == AppendResult \/ ReadMatchRate

SpecRate == InitRate /\ [][NextRate]_vars

\* the records with exactly one file, counted from the other two statuses
SingleMatches ==
    Len(Results)
    - Cardinality({i \in Evaluated : Results[i].status = "UNMATCHED"})
    - Cardinality({i \in Evaluated : Results[i].status = "MULTI_MATCHED"})

\* C20: match_rate is matched_count / total_records when total_records > 0
\* and 0 when total_records = 0, without a division by zero; it is computed
\* from the results list as it is at the access, and MULTI_MATCHED records
\* do not count.
MatchRateValue ==
    pc = "read" =>
        /\ ret[1].den # 0
        /\ result.total_records > 0 =>
              ret[1].num * result.total_records = SingleMatches * ret[1].den
        /\ result.total_records = 0 => ret[1].num = 0

MatchRateValueWitness ==
    /\ pc = "read"
    /\ result.total_records = 2
    /\ Len(Results) = 2
    /\ Results[1].status = "MATCHED"
    /\ Results[2].status = "MULTI_MATCHED"
    /\ ret[1] = [num |-> 1, den |-> 2]

\* a rate of 0 for total_records = 0 although a record is MATCHED
MatchRateZeroWitness ==
    /\ pc = "read"
    /\ result.total_records = 0
    /\ matched_count(result) > 0
    /\ ret[1].num = 0

-----------------------------------------------------------------------------
(* PDFMatcher._match_single_record called on indexes built by the caller: *)
(* a location may stand in several entries, or twice in one               *)

MaxIndexEntries == 2

Path_a == [dir |-> "", stem |-> Name_isj]

Path_b == [dir |-> "", stem |-> Name_titleYear]

Path_c == [dir |-> "sub", stem |-> Name_titleYear]

\* (pdf_name, pdf_path)
Item(path) == [name |-> path.stem, path |-> path]

\* three DOI keys, each held by the DOI '10.1111/isj.12345'
SingleDoiEntries ==
    {[key |-> <<"1", "0", "1", "1", "1", "1", "i", "s", "j", "1", "2", "3", "4", "5">>, value |-> <<Item(Path_a)>>],
     [key |-> <<"i", "s", "j", "1", "2", "3", "4", "5">>, value |-> <<Item(Path_a), Item(Path_b)>>],
     [key |-> <<"1", "2", "3", "4", "5">>, value |-> <<Item(Path_b), Item(Path_b)>>]}

\* two title keys, each a prefix of the title 'Deep learning models'
SingleTitleEntries ==
    {[key |-> <<"d", "e", "e", "p", "l", "e", "a", "r", "n", "i", "n", "g">>, value |-> <<Item(Path_b), Item(Path_c)>>],
     [key |-> <<"d", "e", "e", "p", "l", "e", "a", "r", "n", "i", "n", "g", "m", "o", "d", "e", "l", "s">>, value |-> <<Item(Path_c), Item(Path_b)>>]}

InitSingle ==
    /\ IdleMatcher
    /\ pc = "call"
    /\ arg \in [record : {Rec_isjDoi, Rec_titleOnly, Rec_bothNone},
                 title_index : Arrangements(SingleTitleEntries, MaxIndexEntries),
                 doi_index : Arrangements(SingleDoiEntries, MaxIndexEntries)]
    /\ ret = <<>>

\* self._match_single_record(idx, record, title_index, doi_index)
MatchSingleCall ==
    /\ pc = "call"
    /\ ret' = <<_match_single_record(0, arg.record, arg.title_index, arg.doi_index)>>
    /\ pc' = "returned"
    /\ UNCHANGED <<arg, matcher_vars, app_vars>>

NextSingle == MatchSingleCall

SpecSingle == InitSingle /\ [][NextSingle]_vars

\* the locations of the entries of an index at the positions in keep, entry
\* by entry in the order of the index
RECURSIVE EntryPaths(_, _)
EntryPaths(index, keep) ==
    IF index = <<>> THEN <<>>
    ELSE EntryPaths(SubSeq(index, 1, Len(index) - 1), keep)
         \o (IF Len(index) \in keep THEN Paths(index[Len(index)].value) ELSE <<>>)

\* what the call accumulated before deduplication
Accumulated ==
    LET norm_doi == FieldText(arg.record, "DOI", FALSE)
        norm_title == FieldText(arg.record, "Title", TRUE)
        by_doi == IF Len(norm_doi) >= 5
                  THEN EntryPaths(arg.doi_index,
                                  {i \in 1..Len(arg.doi_index) :
                                      /\ Len(arg.doi_index[i].key) >= 5
                                      /\ IsSubstring(arg.doi_index[i].key, norm_doi)})
                  ELSE <<>>
    IN IF by_doi # <<>> THEN by_doi
       ELSE EntryPaths(arg.title_index,
                       {i \in 1..Len(arg.title_index) :
                           /\ arg.title_index[i].key # <<>>
                           /\ norm_title # <<>>
                           /\ StartsWith(norm_title, arg.title_index[i].key)})

\* position of the first occurrence of x in xs
FirstPos(xs, x) == CHOOSE i \in 1..Len(xs) : xs[i] = x /\ \A j \in 1..(i - 1) : xs[j] # x

\* C21: the matched_pdfs list of a MatchResult holds no location twice, and
\* its elements stand in the order in which they were first collected while
\* iterating the index.
MatchedPdfsDeduplicated ==
    \A c \in 1..Len(ret) :
        LET pdfs == ret[c].matched_pdfs
        IN /\ \A a, b \in 1..Len(pdfs) : a # b => pdfs[a] # pdfs[b]
           /\ PathSet(pdfs) = PathSet(Accumulated)
           /\ \A a, b \in 1..Len(pdfs) :
                 a < b => FirstPos(Accumulated, pdfs[a]) < FirstPos(Accumulated, pdfs[b])

MatchedPdfsDeduplicatedWitness ==
    /\ Len(ret) = 1
    /\ Accumulated = <<Path_a, Path_b, Path_a>>
    /\ ret[1].matched_pdfs = <<Path_a, Path_b>>

-----------------------------------------------------------------------------
(* MatchingApplication._run_matching on a CSVDataSource.  Each call the   *)
(* method makes is a step that completes or raises; app.trace is the list *)
(* of the calls made so far                                               *)

MaxCsvFiles == 1

\* a path of the configuration: not given, given but absent, given and there
PathStates == {"unset", "missing", "present"}

\* what match_all may hand back: a batch without and one with a MATCHED record
AppResults ==
    {[total_records |-> 1, total_pdfs |-> 1, results |-> <<BareResult(0, "UNMATCHED")>>],
     [total_records |-> 1, total_pdfs |-> 1, results |-> <<BareResult(0, "MATCHED")>>]}

InitApp ==
    /\ directory = [exists |-> FALSE, listing |-> <<>>]
    /\ records = <<>>
    /\ pc = "start"
    /\ pdf_files = <<>>
    /\ file_pos = 1
    /\ title_index = <<>>
    /\ doi_index = <<>>
    /\ result = [total_records |-> 0, total_pdfs |-> 0, results |-> <<>>]
    /\ match_method = <<>>
    /\ arg = <<>>
    /\ ret = <<>>
    /\ \E f \in PathStates, d \in PathStates :
          data_source = [csv_file |-> f, csv_dir |-> d,
                         _connected |-> FALSE, _csv_files |-> <<>>]
    /\ \E c \in BOOLEAN :
          app = [pc |-> "connect", copy_pdfs |-> c, trace |-> <<>>,
                 raised |-> FALSE, outcome |-> ""]
    /\ copier = [pc |-> "idle", uuid_field |-> "", overwrite |-> FALSE, pos |-> 1,
                 dest |-> <<>>, missing |-> {}, instructions |-> <<>>,
                 stats |-> [total |-> 0, copied |-> 0, skipped |-> 0, failed |-> 0]]

\* the CSV files that sorted(csv_dir.glob(pattern)) may find
GlobResults == {[i \in 1..n |-> "csv"] : n \in 0..MaxCsvFiles}

\* faulty variant: connect() does not look whether the path exists
ConnectedSourcesUnchecked(ds) ==
    IF ds.csv_file # "unset"
    THEN {[ds EXCEPT !._connected = TRUE, !._csv_files = <<"csv">>]}
    ELSE IF ds.csv_dir # "unset"
    THEN {[ds EXCEPT !._connected = TRUE, !._csv_files = g] : g \in GlobResults}
    ELSE {}

\* CSVDataSource.connect: the states of the data source after a call that
\* returns True; the empty set when the call returns False
ConnectedSources(ds) ==
    IF ds.csv_file # "unset"
    THEN IF ds.csv_file = "missing" THEN {}
         ELSE {[ds EXCEPT !._connected = TRUE, !._csv_files = <<"csv">>]}
    ELSE IF ds.csv_dir # "unset"
    THEN IF ds.csv_dir = "missing" THEN {}
         ELSE {[ds EXCEPT !._connected = TRUE, !._csv_files = g] : g \in GlobResults}
    ELSE {}

app_frame ==
    <<directory, records, pc, pdf_files, file_pos, title_index, doi_index,
      match_method, arg, ret, copier>>

\* "if not data_source.connect(): raise RuntimeError"
Connect ==
    /\ app.pc = "connect"
    /\ IF ConnectedSources(data_source) = {}
       THEN /\ app' = [app EXCEPT !.pc = "end", !.trace = Append(@, "connect"),
                                  !.raised = TRUE, !.outcome = "raised"]
            /\ UNCHANGED data_source
       ELSE /\ data_source' \in ConnectedSources(data_source)
            /\ app' = [app EXCEPT !.pc = "get_records", !.trace = Append(@, "connect")]
    /\ UNCHANGED <<result, app_frame>>

\* a call inside the try block that raises: control goes to the finally clause
Raises(step) ==
    app' = [app EXCEPT !.pc = "disconnect", !.trace = Append(@, step), !.raised = TRUE]

\* a call inside the try block that completes
Completes(step, next) ==
    app' = [app EXCEPT !.pc = next, !.trace = Append(@, step)]

\* data_source.get_records(collection_name, query): ValueError without a
\* CSV file, an error while reading, or the records
GetRecords ==
    /\ app.pc = "get_records"
    /\ \/ Raises("get_records")
       \/ data_source._csv_files # <<>> /\ Completes("get_records", "match_all")
    /\ UNCHANGED <<data_source, result, app_frame>>

\* self.result = matcher.match_all(...)
MatchAll ==
    /\ app.pc = "match_all"
    /\ \/ Raises("match_all") /\ UNCHANGED result
       \/ Completes("match_all", "export_all") /\ result' \in AppResults
    /\ UNCHANGED <<data_source, app_frame>>

\* self.exporter.export_all(...)
ExportAll ==
    /\ app.pc = "export_all"
    /\ Raises("export_all") \/ Completes("export_all", "generate_all_summaries")
    /\ UNCHANGED <<data_source, result, app_frame>>

\* self.summary_generator.generate_all_summaries(), then the test
\* "if self.copy_pdfs and self.copy_dir and self.result.matched_count > 0"
GenerateAllSummaries ==
    /\ app.pc = "generate_all_summaries"
    /\ \/ Raises("generate_all_summaries")
       \/ Completes("generate_all_summaries",
                    IF app.copy_pdfs /\ matched_count(result) > 0
                    THEN "copy_matched_pdfs" ELSE "disconnect")
    /\ UNCHANGED <<data_source, result, app_frame>>

\* copier.copy_matched_pdfs(self.result, uuid_field=...)
CopyMatchedPdfs ==
    /\ app.pc = "copy_matched_pdfs"
    /\ Raises("copy_matched_pdfs") \/ Completes("copy_matched_pdfs", "disconnect")
    /\ UNCHANGED <<data_source, result, app_frame>>

\* faulty variant: disconnect() only at the end of the try block, no finally
DisconnectOnSuccessOnly ==
    /\ app.pc = "disconnect"
    /\ IF app.raised
       THEN /\ app' = [app EXCEPT !.pc = "end", !.outcome = "raised"]
            /\ UNCHANGED data_source
       ELSE /\ data_source' = [data_source EXCEPT !._csv_files = <<>>, !._connected = FALSE]
            /\ app' = [app EXCEPT !.pc = "end", !.trace = Append(@, "disconnect"),
                                  !.outcome = "returned"]
    /\ UNCHANGED <<result, app_frame>>

\* "finally: data_source.disconnect()", then the return of self.result or
\* the pending exception
Disconnect ==
    /\ app.pc = "disconnect"
    /\ data_source' = [data_source EXCEPT !._csv_files = <<>>, !._connected = FALSE]
    /\ app' = [app EXCEPT !.pc = "end", !.trace = Append(@, "disconnect"),
                          !.outcome = IF app.raised THEN "raised" ELSE "returned"]
    /\ UNCHANGED <<result, app_frame>>

NextApp ==
    \/ Connect
    \/ GetRecords
    \/ MatchAll
    \/ ExportAll
    \/ GenerateAllSummaries
    \/ CopyMatchedPdfs
    \/ Disconnect

SpecApp == InitApp /\ [][NextApp]_vars

\* neither a file nor a directory is given, or the one that connect() looks
\* at does not exist
Misconfigured ==
    \/ data_source.csv_file = "missing"
    \/ data_source.csv_file = "unset" /\ data_source.csv_dir \in {"unset", "missing"}

\* C23: with a CSVDataSource that has neither csv_file nor csv_dir, or whose
\* given path does not exist, connect() returns False and _run_matching
\* raises to the caller before get_records, match_all, an export or a copy.
ConfigErrorFailsFast ==
    Misconfigured =>
        /\ \A i \in 1..Len(app.trace) : app.trace[i] = "connect"
        /\ ~data_source._connected
        /\ result.results = <<>>
        /\ app.outcome # "returned"
        /\ app.pc = "end" => app.outcome = "raised" /\ app.trace = <<"connect">>
        /\ app.pc \in {"connect", "end"}

ConfigErrorFailsFastWitness ==
    /\ data_source.csv_file = "unset"
    /\ data_source.csv_dir = "missing"
    /\ app.pc = "end"
    /\ app.outcome = "raised"
    /\ app.trace = <<"connect">>


\* how often disconnect() has been called
DisconnectCalls == Cardinality({i \in 1..Len(app.trace) : app.trace[i] = "disconnect"})

\* C29: once connect() has returned True, disconnect() is called exactly
\* once before control returns to the caller, whether the steps in between
\* complete or raise; when connect() returns False, disconnect() is never
\* called; no step runs after disconnect().
DisconnectProtocol ==
    /\ DisconnectCalls <= 1
    /\ \A i \in 1..Len(app.trace) : app.trace[i] = "disconnect" => i = Len(app.trace)
    /\ Misconfigured => DisconnectCalls = 0
    /\ (app.pc = "end" /\ ~Misconfigured) =>
          /\ DisconnectCalls = 1
          /\ app.trace[1] = "connect"
          /\ ~data_source._connected
          /\ app.outcome \in {"returned", "raised"}
    /\ app.outcome = "returned" => DisconnectCalls = 1

DisconnectProtocolWitness ==
    /\ app.pc = "end"
    /\ app.outcome = "raised"
    /\ app.trace = <<"connect", "get_records", "match_all", "export_all",
                     "generate_all_summaries", "copy_matched_pdfs", "disconnect">>

-----------------------------------------------------------------------------
(* PDFCopier.copy_matched_pdfs.  copier.dest is the output directory, a   *)
(* dict from file name to the location the content was copied from       *)
(* (OldFile for a file that was there before the call);                   *)
(* copier.instructions lists, for each result handled, the source, the    *)
(* destination name and the bucket                                        *)

MaxCopyResults == 2

\* BatchMatchResult.matched_results
matched_results(r) == SelectSeq(r.results, LAMBDA mr : mr.status = "MATCHED")

uuid_column == "uuid"

\* a MatchResult whose record has the uuid value v
CopyResult(status, pdfs, v) ==
    [record_index |-> 0,
     record |-> [data |-> [uuid |-> v]],
     status |-> status,
     matched_pdfs |-> pdfs,
     reason |-> [text |-> "", count |-> 0]]

Uuid_1 == Str(<<"u", "1">>)

\* MATCHED results with a uuid, with an empty uuid, with None, with the uuid
\* of another result; a MULTI_MATCHED and an UNMATCHED result
CopyResultPool ==
    {CopyResult("MATCHED", <<Path_a>>, Uuid_1),
     CopyResult("MATCHED", <<Path_b>>, Str(<<>>)),
     CopyResult("MATCHED", <<Path_a>>, None),
     CopyResult("MATCHED", <<Path_b>>, Uuid_1),
     CopyResult("MULTI_MATCHED", <<Path_a, Path_b>>, Str(<<"u", "2">>)),
     CopyResult("UNMATCHED", <<>>, Str(<<"u", "3">>))}

PdfSuffix == <<".", "p", "d", "f">>

\* Path.name of a scanned file
PathName(path) == path.stem \o PdfSuffix

\* where the content of a file that was in the output directory before the
\* call came from
OldFile == [dir |-> "output", stem |-> <<>>]

\* the output directory before the call: empty, or holding u1.pdf
InitialDests == {<<>>, <<[key |-> Uuid_1.s \o PdfSuffix, value |-> OldFile]>>}

InitCopy ==
    /\ directory = [exists |-> FALSE, listing |-> <<>>]
    /\ records = <<>>
    /\ pc = "start"
    /\ pdf_files = <<>>
    /\ file_pos = 1
    /\ title_index = <<>>
    /\ doi_index = <<>>
    /\ match_method = <<>>
    /\ arg = <<>>
    /\ ret = <<>>
    /\ data_source = [csv_file |-> "unset", csv_dir |-> "unset",
                      _connected |-> FALSE, _csv_files |-> <<>>]
    /\ app = [pc |-> "idle", copy_pdfs |-> FALSE, trace |-> <<>>,
              raised |-> FALSE, outcome |-> ""]
    /\ \E rs \in Lists(CopyResultPool, MaxCopyResults) :
          result = [total_records |-> Len(rs), total_pdfs |-> 2, results |-> rs]
    /\ \E u \in {"", uuid_column}, o \in BOOLEAN,
          gone \in SUBSET {Path_a, Path_b}, d \in InitialDests :
          copier = [pc |-> "call", uuid_field |-> u, overwrite |-> o, pos |-> 1,
                    dest |-> d, missing |-> gone, instructions |-> <<>>,
                    stats |-> [total |-> 0, copied |-> 0, skipped |-> 0, failed |-> 0]]

copy_frame ==
    <<directory, records, pc, pdf_files, file_pos, title_index, doi_index,
      match_method, arg, ret, data_source, app, result>>

\* output_dir.mkdir(...), which may raise, and the stats with their total
CopyStart ==
    /\ copier.pc = "call"
    /\ \/ copier' = [copier EXCEPT !.pc = "raised"]
       \/ copier' = [copier EXCEPT !.pc = "loop",
                                   !.stats.total = Len(matched_results(result))]
    /\ UNCHANGED copy_frame

\* faulty variant: the uuid names the copy whenever the record has one
DstNameUuidAlways(mr, uuid_field) ==
    IF Truthy(RecordGet(mr.record, uuid_column, Str(<<>>)))
    THEN ToStr(RecordGet(mr.record, uuid_column, Str(<<>>))) \o PdfSuffix
    ELSE PathName(matched_pdf(mr))

\* the destination file name of one result
DstName(mr, uuid_field) ==
    IF uuid_field # "" /\ Truthy(RecordGet(mr.record, uuid_field, Str(<<>>)))
    THEN ToStr(RecordGet(mr.record, uuid_field, Str(<<>>))) \o PdfSuffix
    ELSE PathName(matched_pdf(mr))

\* the copier after one result has been put into a bucket
Counted(bucket, src, dst_name, dest) ==
    [copier EXCEPT !.pos = @ + 1,
                   !.stats[bucket] = @ + 1,
                   !.dest = dest,
                   !.instructions = Append(@, [src |-> src, dst_name |-> dst_name,
                                               bucket |-> bucket])]

\* faulty variant: the first failure ends the loop
CopyOneStopOnFailure ==
    /\ copier.pc = "loop"
    /\ copier.pos <= Len(matched_results(result))
    /\ LET mr == matched_results(result)[copier.pos]
           src == matched_pdf(mr)
           dst_name == DstName(mr, copier.uuid_field)
       IN IF src = NonePath \/ src \in copier.missing
          THEN copier' = [Counted("failed", src, <<>>, copier.dest) EXCEPT !.pc = "returned"]
          ELSE IF DictHas(copier.dest, dst_name) /\ ~copier.overwrite
          THEN copier' = Counted("skipped", src, dst_name, copier.dest)
          ELSE \/ copier' = Counted("copied", src, dst_name,
                                    DictPut(copier.dest, dst_name, src))
               \/ copier' = Counted("failed", src, dst_name, copier.dest)
    /\ UNCHANGED copy_frame

\* one iteration of "for match_result in matched_results"
CopyOne ==
    /\ copier.pc = "loop"
    /\ copier.pos <= Len(matched_results(result))
    /\ LET mr == matched_results(result)[copier.pos]
           src == matched_pdf(mr)
           dst_name == DstName(mr, copier.uuid_field)
       IN IF src = NonePath \/ src \in copier.missing
          THEN copier' = Counted("failed", src, <<>>, copier.dest)
          ELSE IF DictHas(copier.dest, dst_name) /\ ~copier.overwrite
          THEN copier' = Counted("skipped", src, dst_name, copier.dest)
          ELSE \/ copier' = Counted("copied", src, dst_name,
                                    DictPut(copier.dest, dst_name, src))
               \/ copier' = Counted("failed", src, dst_name, copier.dest)
    /\ UNCHANGED copy_frame

\* "return stats"
CopyReturn ==
    /\ copier.pc = "loop"
    /\ copier.pos > Len(matched_results(result))
    /\ copier' = [copier EXCEPT !.pc = "returned"]
    /\ UNCHANGED copy_frame

NextCopy == CopyStart \/ CopyOne \/ CopyReturn

SpecCopy == InitCopy /\ [][NextCopy]_vars


\* the positions of the MATCHED results of the batch
MatchedPositions == {i \in 1..Len(Results) : Results[i].status = "MATCHED"}

\* the k-th MATCHED result
NthMatched(k) ==
    Results[CHOOSE i \in MatchedPositions :
               Cardinality({j \in MatchedPositions : j <= i}) = k]

\* the record's value for the uuid column is a non-empty string
HasUuid(mr) ==
    /\ "uuid" \in DOMAIN mr.record.data
    /\ mr.record.data.uuid.kind = "str"
    /\ mr.record.data.uuid.s # <<>>

\* C24: copy_matched_pdfs makes one copy instruction per MATCHED result and
\* none for an UNMATCHED or MULTI_MATCHED one; the destination name is
\* '<uuid>.pdf' when a uuid field is configured and the record's value for
\* it is non-empty, and the original file name of the PDF otherwise.
CopyInstructionPerMatched ==
    /\ Len(copier.instructions) <= Cardinality(MatchedPositions)
    /\ copier.pc = "returned" => Len(copier.instructions) = Cardinality(MatchedPositions)
    /\ \A k \in 1..Len(copier.instructions) :
          LET ins == copier.instructions[k]
              mr == NthMatched(k)
          IN /\ ins.src = mr.matched_pdfs[1]
             /\ ins.dst_name # <<>> =>
                   ins.dst_name =
                       IF copier.uuid_field = "uuid" /\ HasUuid(mr)
                       THEN mr.record.data.uuid.s \o <<".", "p", "d", "f">>
                       ELSE ins.src.stem \o <<".", "p", "d", "f">>

CopyInstructionPerMatchedWitness ==
    /\ copier.pc = "returned"
    /\ copier.uuid_field = "uuid"
    /\ Len(Results) = 2
    /\ Results[1].status = "MULTI_MATCHED"
    /\ Results[2] = CopyResult("MATCHED", <<Path_a>>, Uuid_1)
    /\ Len(copier.instructions) = 1
    /\ copier.instructions[1].dst_name = Uuid_1.s \o PdfSuffix
    /\ copier.instructions[1].bucket = "copied"

\* the instructions that ended in a bucket
InBucket(bucket) ==
    {k \in 1..Len(copier.instructions) : copier.instructions[k].bucket = bucket}

CopySkipWitness ==
    /\ copier.pc = "returned"
    /\ copier.stats.skipped = 1
    /\ copier.dest = <<[key |-> Uuid_1.s \o PdfSuffix, value |-> OldFile]>>

-----------------------------------------------------------------------------
(* The properties of a MatchResult built by hand *)

MaxResultPdfs == 3

InitResult ==
    /\ IdleMatcher
    /\ pc = "call"
    /\ \E status \in {"MATCHED", "UNMATCHED", "MULTI_MATCHED"},
          pdfs \in Lists({Path_a, Path_b, Path_c}, MaxResultPdfs) :
          arg = CopyResult(status, pdfs, None)
    /\ ret = <<>>

\* arg.matched_pdf, arg.is_matched, arg.is_multi_matched
ReadResultProperties ==
    /\ pc = "call"
    /\ ret' = <<[matched_pdf |-> matched_pdf(arg),
                 is_matched |-> is_matched(arg),
                 is_multi_matched |-> is_multi_matched(arg)]>>
    /\ pc' = "returned"
    /\ UNCHANGED <<arg, matcher_vars, app_vars>>

NextResult == ReadResultProperties

SpecResult == InitResult /\ [][NextResult]_vars

\* C26: matched_pdf is the first element of matched_pdfs when the status is
\* MATCHED and the list is not empty, and None for every UNMATCHED or
\* MULTI_MATCHED result, whatever its list holds; is_matched and
\* is_multi_matched are never both true.
MatchedPdfOnlyForMatched ==
    \A c \in 1..Len(ret) :
        /\ (arg.status = "MATCHED" /\ Len(arg.matched_pdfs) >= 1) =>
              ret[c].matched_pdf = arg.matched_pdfs[1]
        /\ arg.status \in {"UNMATCHED", "MULTI_MATCHED"} => ret[c].matched_pdf = NonePath
        /\ ~(ret[c].is_matched /\ ret[c].is_multi_matched)
        /\ ret[c].is_matched = (arg.status = "MATCHED")
        /\ ret[c].is_multi_matched = (arg.status = "MULTI_MATCHED")

MatchedPdfOnlyForMatchedWitness ==
    /\ Len(ret) = 1
    /\ arg.status = "MULTI_MATCHED"
    /\ arg.matched_pdfs = <<Path_a, Path_b>>
    /\ ret[1].matched_pdf = NonePath
    /\ ret[1].is_multi_matched

-----------------------------------------------------------------------------
(* Where a scanned location is filed, and what deduplication finds to remove *)

\* the positions (entry, place in the entry's list) at which an index holds path
IndexPositions(index, path) ==
    UNION {{<<k, n>> : n \in {j \in 1..Len(index[k].value) :
                                index[k].value[j].path = path}} :
           k \in 1..Len(index)}

ScannedPaths == {f.value : f \in ScannedFiles}

\* C27: every scanned location is filed in at most one DOI-index entry and
\* at most one title-index entry, once; the list accumulated for a record
\* holds no location twice, so deduplication leaves it as it is, and every
\* location of matched_pdfs is a location the scan returned.
IndexedOnceNothingToDedup ==
    /\ \A path \in ScannedPaths :
          /\ Cardinality(IndexPositions(doi_index, path)) <= 1
          /\ Cardinality(IndexPositions(title_index, path)) <= 1
    /\ \A i \in Evaluated :
          LET acc == Collected(records[i], title_index, doi_index)
          IN /\ Dedup(acc) = acc
             /\ Results[i].matched_pdfs = acc
             /\ PathSet(acc) \subseteq ScannedPaths

IndexedOnceNothingToDedupWitness ==
    \E i \in Evaluated :
        /\ Len(Collected(records[i], title_index, doi_index)) = 2
        /\ Len(Results[i].matched_pdfs) = 2
        /\ \A path \in PathSet(Results[i].matched_pdfs) :
              Cardinality(IndexPositions(doi_index, path)) = 1

\* a location filed in both indexes, matched once through the title index
FiledInBothIndexesWitness ==
    \E i \in Evaluated :
        /\ Len(Results[i].matched_pdfs) = 1
        /\ IndexPositions(doi_index, Results[i].matched_pdfs[1]) # {}
        /\ IndexPositions(title_index, Results[i].matched_pdfs[1]) # {}

-----------------------------------------------------------------------------
(* match_all called again on the same directory with another batch *)

\* Rec_titleOnly with one more column, which the matcher never reads
Rec_titleOnlyNoted ==
    [data |-> [Title |-> Str(<<"D", "e", "e", "p", " ", "l", "e", "a", "r", "n", "i", "n", "g">>), Note |-> Str(<<"s", "e", "e", "n">>)]]

RepeatRecordPool == {Rec_isjDoi, Rec_titleOnly, Rec_titleOnlyNoted}

InitRepeat ==
    /\ directory \in DefectDirectories
    /\ records \in Lists(RepeatRecordPool, MaxRecords)
    /\ FreshMatcher

\* the caller keeps what the finished run returned and calls match_all again
\* with another batch; every local of match_all starts afresh
MatchAllAgain ==
    /\ pc = "done"
    /\ ret' = <<[pdf_files |-> pdf_files, records |-> records, results |-> result.results]>>
    /\ records' \in Lists(RepeatRecordPool, MaxRecords)
    /\ pc' = "start"
    /\ pdf_files' = <<>>
    /\ file_pos' = 1
    /\ title_index' = <<>>
    /\ doi_index' = <<>>
    /\ result' = [total_records |-> 0, total_pdfs |-> 0, results |-> <<>>]
    /\ match_method' = <<>>
    /\ UNCHANGED <<app_vars, arg, directory>>

NextRepeat ==
    \/ Next
    \/ MatchAllAgain

SpecRepeat == InitRepeat /\ [][NextRepeat]_vars

\* the two field values of a record that the matcher reads
OwnFields(record) ==
    <<RecordGet(record, title_column, Str(<<>>)), RecordGet(record, doi_column, Str(<<>>))>>

\* C25: for a fixed set of scanned files the status and matched_pdfs of a
\* record depend only on its own title and DOI field values: two records with
\* the same two values get the same outcome, whether they stand in the same
\* batch or in the batches of two runs, at whatever positions and next to
\* whatever other records.
RecordOutcomeIndependent ==
    /\ \A i \in Evaluated : \A j \in Evaluated :
          OwnFields(records[i]) = OwnFields(records[j]) =>
              /\ Results[i].status = Results[j].status
              /\ Results[i].matched_pdfs = Results[j].matched_pdfs
    /\ \A r \in 1..Len(ret) :
          ret[r].pdf_files = pdf_files =>
              \A i \in Evaluated : \A j \in 1..Len(ret[r].results) :
                  OwnFields(records[i]) = OwnFields(ret[r].records[j]) =>
                      /\ Results[i].status = ret[r].results[j].status
                      /\ Results[i].matched_pdfs = ret[r].results[j].matched_pdfs

RecordOutcomeIndependentWitness ==
    /\ Len(ret) = 1
    /\ ret[1].pdf_files = pdf_files
    /\ ret[1].records = <<Rec_titleOnly>>
    /\ ret[1].results[1].status = "MATCHED"
    /\ records = <<Rec_isjDoi, Rec_titleOnlyNoted>>
    /\ Len(Results) = 2
    /\ Results[1].status = "MATCHED"
    /\ Results[2].status = "MATCHED"
    /\ Results[2].matched_pdfs = ret[1].results[1].matched_pdfs
    /\ Results[1].matched_pdfs # Results[2].matched_pdfs

-----------------------------------------------------------------------------
(* Index keys of which one is a prefix, or a part, of another *)

Name_titleModels == <<"D", "e", "e", "p", "-", "l", "e", "a", "r", "n", "i", "n", "g", "-", "m", "o", "d", "e", "l", "s">>

Name_sj == <<"s", "j", ".", "1", "2", "3", "4", "5">>

\* the title keys 'deeplearning' and 'deeplearningmodels'; the DOI keys
\* '101111isj12345' and 'sj12345'
PrefixDirPool ==
    {File("", Name_titleYear), File("", Name_titleModels), File("", Name_isj), File("", Name_sj)}

Rec_modelsOnly == Rec(Str(<<"D", "e", "e", "p", " ", "l", "e", "a", "r", "n", "i", "n", "g", " ", "m", "o", "d", "e", "l", "s">>), None)

PrefixRecordPool == {Rec_isjDoi, Rec_modelsOnly, Rec_titleOnly}

InitPrefix ==
    /\ directory \in {[exists |-> TRUE, listing |-> l] :
                         l \in Arrangements(PrefixDirPool, MaxFiles)}
    /\ records \in Lists(PrefixRecordPool, MaxRecords)
    /\ FreshMatcher

SpecPrefix == InitPrefix /\ [][Next]_vars

\* two entries of an index that hold different files
DifferentFiles(index, a, b) ==
    a # b /\ PathSet(Paths(index[a].value)) # PathSet(Paths(index[b].value))

BothCollected(index, a, b, mr) ==
    /\ PathSet(Paths(index[a].value)) \cup PathSet(Paths(index[b].value))
          \subseteq PathSet(mr.matched_pdfs)
    /\ mr.status = "MULTI_MATCHED"

\* C28: when the title index holds a key k1 that is a proper prefix of a key
\* k2 of another file, every record that reaches the title phase with a
\* normalized title starting with k2 collects both files and is
\* MULTI_MATCHED, and no record is MATCHED through its title to the file of
\* k2 alone; and when the DOI index holds two keys of at least MIN_DOI_LEN
\* characters with k1 a proper part of k2, every record whose DOI phase runs
\* on a normalized DOI containing k2 collects both files and is MULTI_MATCHED.
NestedKeysMultiMatch ==
    \A i \in Evaluated :
        LET record == records[i]
            doi_value == RecordGet(record, doi_column, Str(<<>>))
            norm_doi == normalize(ToStr(doi_value), FALSE)
            norm_title == normalize(ToStr(RecordGet(record, title_column, Str(<<>>))), TRUE)
            title_phase == TitlePhaseRuns(record, DoiPhase(record, doi_index))
        IN /\ \A a \in 1..Len(title_index) : \A b \in 1..Len(title_index) :
                 (DifferentFiles(title_index, a, b)
                    /\ ProperPrefix(title_index[a].key, title_index[b].key)) =>
                     /\ (title_phase /\ StartsWith(norm_title, title_index[b].key)) =>
                            BothCollected(title_index, a, b, Results[i])
                     /\ (title_phase /\ Results[i].status = "MATCHED") =>
                            Results[i].matched_pdfs[1] \notin PathSet(Paths(title_index[b].value))
           /\ \A a \in 1..Len(doi_index) : \A b \in 1..Len(doi_index) :
                 (DifferentFiles(doi_index, a, b)
                    /\ Len(doi_index[a].key) >= MIN_DOI_LEN
                    /\ Len(doi_index[b].key) >= MIN_DOI_LEN
                    /\ ProperSubstring(doi_index[a].key, doi_index[b].key)
                    /\ Truthy(doi_value)
                    /\ Len(norm_doi) >= MIN_DOI_LEN
                    /\ IsSubstring(doi_index[b].key, norm_doi)) =>
                     BothCollected(doi_index, a, b, Results[i])

\* 'Deep learning models' with no DOI against both title files, and next to
\* it 'Deep learning', which only the shorter key matches
NestedKeysMultiMatchWitness ==
    /\ Len(title_index) = 2
    /\ ProperPrefix(title_index[1].key, title_index[2].key)
    /\ records = <<Rec_modelsOnly, Rec_titleOnly>>
    /\ Len(Results) = 2
    /\ Results[1].status = "MULTI_MATCHED"
    /\ Len(Results[1].matched_pdfs) = 2
    /\ Results[2].status = "MATCHED"
    /\ Results[2].matched_pdfs = Paths(title_index[1].value)

\* the DOI '10.1111/isj.12345' against the keys '101111isj12345' and 'sj12345'
NestedDoiKeysWitness ==
    /\ Len(doi_index) = 2
    /\ ProperSubstring(doi_index[2].key, doi_index[1].key)
    /\ Len(Results) >= 1
    /\ records[1] = Rec_isjDoi
    /\ Results[1].status = "MULTI_MATCHED"
    /\ Len(Results[1].matched_pdfs) = 2

=============================================================================
